---- MODULE Spec2Model ----
(***************************************************************************)
(* A model of the voice streaming core of mosaik:                          *)
(*   - voice/src/buffer.rs   SampleBuffer (the jitter buffer)              *)
(*   - voice/src/lib.rs      VoiceConnection (send loop, pause, stop,      *)
(*                           signaling loop, reconnect)                    *)
(*   - voice/src/ws.rs       WebSocketVoiceConnection (IO task)            *)
(*   - worker/src/player     Player (orchestration of the above)           *)
(*   - worker/src/commands   the play and jump commands over the Player    *)
(*                                                                         *)
(* Samples are counted in blocks of 960 interleaved f32 values, the        *)
(* largest unit that divides every size of the program (TIMESTAMP_STEP,    *)
(* PACKET_SIZE, SAMPLE_RATE): a block is a natural number, its identity.   *)
(* Every access of a task to memory it shares with another task is one     *)
(* step; steps that touch only the task's own locals are folded into the   *)
(* preceding step.                                                         *)
(***************************************************************************)
EXTENDS Integers, Sequences, FiniteSets, TLC

VARIABLES
  \* ---- SampleBuffer (voice/src/buffer.rs:10-20)
  capacity,        \* HeapRb capacity
  low_threshold,
  high_threshold,
  ring,            \* the ring's unread samples, oldest first
  length,          \* AtomicUsize; a value < 0 stands for 2^64 + value
  is_corked,       \* StateFlow<bool>
  wp_changed,      \* write_performed: the waiter's receiver has an unseen send
  \* ---- the task inside SampleBuffer::write
  w_pc, w_data, w_len,
  \* ---- the task inside wait_for / read / flush / clear
  r_pc, r_op, r_n, r_out, r_lowok,
  \* ---- callers of the buffer in isolation, and what they observed
  next_id,         \* the next sample the writer will issue
  read_log,        \* the samples returned by completed reads, in order
  flushed,         \* flush or clear has run
  reached,         \* a push has brought the ring to >= high_threshold and no
                   \* pop has brought it to <= low_threshold since
  armed,           \* the writer has corked the buffer while `reached`
  quiet,           \* flush or clear has popped with no write in progress,
                   \* and no write has been called since
  \* ---- VoiceConnection (voice/src/lib.rs:114-131), UdpVoiceConnection
  conn,            \* state, ws, udp, udp_lock, sequence, paused,
                   \* silence_frames_left, stop_udp_loop, and the number of
                   \* events sent on events_tx
  \* ---- the send task: run_udp_loop's position and locals
  loop,
  \* ---- the ingestion task run_udp_loop spawns, and the sample provider
  ing,
  \* ---- callers: set_paused, Player::stop, disconnect, an earlier send task
  env,
  \* ---- what an observer of the send loop has recorded
  hist,
  \* ---- the signaling side: the ws task of Player::connect, the IO task of
  \* ---- the session, and its channels
  sig,
  \* ---- a close code under classification (voice/src/close_code.rs)
  cc,
  \* ---- the RTP counters of the transport under send_voice_packet
  pk,
  \* ---- a StateFlow cell, its setters and its waiter (utils, worker)
  flow,
  \* ---- a connect in progress: the session handshake and the steps after it
  hs,
  \* ---- the Player over one connection (worker/src/player/mod.rs): the
  \* ---- send tasks play has spawned, the commands, the event handler
  pl

bufVars == <<capacity, low_threshold, high_threshold, ring, length, is_corked, wp_changed>>
wVars == <<w_pc, w_data, w_len>>
rVars == <<r_pc, r_op, r_n, r_out, r_lowok>>
obsVars == <<next_id, read_log, flushed, reached, armed, quiet>>
auxVars == <<cc, pk, flow, hs, pl>>
playVars == <<conn, loop, ing, env, hist, sig, auxVars>>
coreVars == <<bufVars, wVars, rVars, obsVars, conn, loop, ing, env, hist, sig>>
vars == <<bufVars, wVars, rVars, obsVars, playVars>>

\* ------------------------------------------------------------------ bounds

\* SampleBuffer in isolation: the samples the writer issues in total, the
\* largest single write and the largest single read.
MaxSamples == 4
MaxWrite == 3
MaxRead == 2
\* The largest ring capacity of the isolated buffer.
MaxCapacity == 3
\* The calls of set_paused during one play.
MaxToggles == 2
\* The text messages the peer sends on one signaling session.
MaxEvents == 2
\* The successful and the failed resumes of the signaling session.
MaxResumes == 2
MaxFailures == 2
\* The calls of send_voice_packet on one transport: one wrap of the
\* sequence and a little more.
MaxFrames == 65540
\* The calls of StateFlow::set on one cell.
MaxSets == 3
\* The cork example: the samples in one unit of the count, and the units
\* its writer issues in total.
CorkUnit == 50
MaxCorkSamples == 7
\* The calls of connect, reconnect_ws and disconnect on one connection, and
\* the packets the peer delivers to one of them.
MaxCalls == 3
\* Send tasks spawned by Player::play, and play commands run.
MaxPlays == 3
MaxCommands == 2
MaxPackets == 4

\* The close codes the peer closes the signaling socket with: normal
\* closure, three codes that cannot be resumed, and the resumable one.
CloseCodes == {1000, 4006, 4014, 4015}

\* The chunk sizes, in blocks, the sample provider yields before None.  The
\* end-to-end sources: three chunks of one frame each (960 samples per
\* channel), or of 960 values each.
E2EScripts == {<<2, 2, 2>>, <<1, 1, 1>>}

\* A source that just passes the pre-roll and then races the send loop with
\* an empty chunk and an odd remainder, and one that fills the buffer to the
\* high threshold.
QuietScripts == E2EScripts \cup {<<50, 0, 3>>, <<100>>}

\* The source played while callers act: 25 frames and half a frame.
BusyScript == <<51>>
\* A source played while the loop is stopped: a chunk larger than the
\* buffer, whose write waits corked with a sample left, and one more chunk.
LongScript == <<151, 1>>

\* UdpVoiceConnection::new draws the first sequence number at random.
SequenceStarts == {65534}

\* The callers that act on the connection during one play: the pause
\* command (once, or twice), Player::stop, disconnect, and the send task of
\* an earlier play.
Callers == {{"pause"}, {"pause", "resume"}, {"stop"}, {"pause", "stop"},
            {"disconnect"}, {"prev"}, {"prev", "stop"}}

Scenarios ==
  {[who |-> {}, script |-> s] : s \in QuietScripts}
    \cup {[who |-> w, script |-> BusyScript] : w \in Callers}
    \cup {[who |-> {"stop"}, script |-> LongScript]}

\* ------------------------------------------------------- program constants

CHANNEL_COUNT == 2
SAMPLE_RATE == 48000
CHUNK_DURATION_MS == 20
TIMESTAMP_STEP == SAMPLE_RATE \div (1000 \div CHUNK_DURATION_MS)
OPUS_SILENCE_FRAMES == 5

\* The unit samples are counted in: 960 values.
Block == TIMESTAMP_STEP

\* run_udp_loop: `const PACKET_SIZE: usize = TIMESTAMP_STEP * CHANNEL_COUNT`.
PACKET_SIZE == (TIMESTAMP_STEP * CHANNEL_COUNT) \div Block

\* VoiceConnection::new: SampleBuffer::new(SAMPLE_RATE * 3, SAMPLE_RATE, SAMPLE_RATE * 2).
ConnCapacity == (SAMPLE_RATE * 3) \div Block
ConnLow == SAMPLE_RATE \div Block
ConnHigh == (SAMPLE_RATE * 2) \div Block

\* Wrap16 (the RTP sequence) and AtomicU8 (silence_frames_left) wrap.
Wrap16(n) == n % 65536
WrapU8(n) == n % 256

\* ------------------------------------------------------------- pure helpers

Min(a, b) == IF a < b THEN a ELSE b

Take(s, n) == SubSeq(s, 1, Min(n, Len(s)))

Drop(s, n) == SubSeq(s, Min(n, Len(s)) + 1, Len(s))

Ids(a, n) == [i \in 1..n |-> a + i - 1]

IsPrefix(s, t) == Len(s) <= Len(t) /\ SubSeq(t, 1, Len(s)) = s

\* SampleBuffer::new: the three assertions on the thresholds.
ValidThresholds(cap, low, high) == low <= high /\ low <= cap /\ high <= cap

\* len() >= size on the usize counter; a wrapped counter is huge.
LenGENonEmpty(l, size) == l < 0 \/ l >= Min(size, 1)

LenGE(l, size) == l < 0 \/ l >= size

\* producer.push_slice(&data[written..end]) with end bounded by free_len().
PushLifo(r, data, cap) == Take(data, cap - Len(r)) \o r

PushSlice(r, data, cap) == r \o Take(data, cap - Len(r))

\* consumer.pop_slice(out): the samples handed out, and the ring left behind.
Popped(r, n) == Take(r, n)

AfterPop(r, n) == Drop(r, n)

\* ---------------------------------------------------------- SampleBuffer

\* write: `is_corked.wait_for(|it| *it == false)` then `producer.lock()`.
WWaitUncorked ==
  /\ w_pc = "w_wait"
  /\ ~is_corked
  /\ w_pc' = IF w_data = <<>> THEN "idle" ELSE "w_push"
  /\ w_len' = IF w_data = <<>> THEN 0 ELSE w_len
  /\ UNCHANGED <<bufVars, w_data, rVars, obsVars, playVars>>

\* write: one `push_slice` of what fits.
WPush ==
  /\ w_pc = "w_push"
  /\ ring' = PushSlice(ring, w_data, capacity)
  /\ w_data' = Drop(w_data, capacity - Len(ring))
  /\ w_pc' = "w_len"
  /\ reached' = (reached \/ (Len(ring') >= high_threshold /\ Len(ring') > low_threshold))
  /\ UNCHANGED <<capacity, low_threshold, high_threshold, length, is_corked, wp_changed,
                 w_len, rVars, next_id, read_log, flushed, armed, quiet, playVars>>

\* write: `let len = producer.len()`.
WLen ==
  /\ w_pc = "w_len"
  /\ w_len' = Len(ring)
  /\ w_pc' = "w_store"
  /\ UNCHANGED <<bufVars, w_data, rVars, obsVars, playVars>>

\* write: `length.store(len)` and `write_performed.0.send(())`.
WStore ==
  /\ w_pc = "w_store"
  /\ length' = w_len
  /\ wp_changed' = TRUE
  /\ w_pc' = "w_cork"
  /\ UNCHANGED <<capacity, low_threshold, high_threshold, ring, is_corked,
                 w_data, w_len, rVars, obsVars, playVars>>

\* write: `if len >= high_threshold { is_corked.set(true) }`.
WCork ==
  /\ w_pc = "w_cork"
  /\ is_corked' = (is_corked \/ w_len >= high_threshold)
  /\ armed' = (armed \/ (w_len >= high_threshold /\ reached))
  /\ w_pc' = "w_chk"
  /\ UNCHANGED <<capacity, low_threshold, high_threshold, ring, length, wp_changed,
                 w_data, w_len, rVars, next_id, read_log, flushed, reached, quiet, playVars>>

\* write: `if is_corked.get() { wait_for uncorked }`, then the loop condition.
WChk ==
  /\ w_pc = "w_chk"
  /\ w_pc' = IF is_corked THEN "w_uncork_wait"
             ELSE IF w_data = <<>> THEN "idle" ELSE "w_push"
  /\ w_len' = IF ~is_corked /\ w_data = <<>> THEN 0 ELSE w_len
  /\ UNCHANGED <<bufVars, w_data, rVars, obsVars, playVars>>

WUncorkWait ==
  /\ w_pc = "w_uncork_wait"
  /\ ~is_corked
  /\ w_pc' = IF w_data = <<>> THEN "idle" ELSE "w_push"
  /\ w_len' = IF w_data = <<>> THEN 0 ELSE w_len
  /\ UNCHANGED <<bufVars, w_data, rVars, obsVars, playVars>>

WriteStep == WWaitUncorked \/ WPush \/ WLen \/ WStore \/ WCork \/ WChk \/ WUncorkWait

\* wait_for: `let length = self.len(); if length >= size { break }`.
RCheck ==
  /\ r_pc = "check"
  /\ r_pc' = IF LenGE(length, r_n)
             THEN (IF r_op = "wait" THEN "ret" ELSE "pop")
             ELSE "mark"
  /\ UNCHANGED <<bufVars, wVars, r_op, r_n, r_out, r_lowok, obsVars, playVars>>

\* wait_for: a clone of the receiver, `borrow_and_update()`.
RMark ==
  /\ r_pc = "mark"
  /\ wp_changed' = FALSE
  /\ r_pc' = "changed"
  /\ UNCHANGED <<capacity, low_threshold, high_threshold, ring, length, is_corked,
                 wVars, r_op, r_n, r_out, r_lowok, obsVars, playVars>>

\* wait_for: `write_performed.changed().await`.
RChanged ==
  /\ r_pc = "changed"
  /\ wp_changed
  /\ wp_changed' = FALSE
  /\ r_pc' = "check"
  /\ UNCHANGED <<capacity, low_threshold, high_threshold, ring, length, is_corked,
                 wVars, r_op, r_n, r_out, r_lowok, obsVars, playVars>>

\* read: `assert!(consumer.len() >= data.len()); consumer.pop_slice(data)`.
RPop ==
  /\ r_pc = "pop"
  /\ IF Len(ring) >= r_n
     THEN /\ r_out' = Popped(ring, r_n)
          /\ ring' = AfterPop(ring, r_n)
          /\ r_pc' = "sub"
          /\ reached' = (reached /\ Len(ring') > low_threshold)
          /\ armed' = (armed /\ Len(ring') > low_threshold)
     ELSE /\ r_pc' = "panic"
          /\ UNCHANGED <<r_out, ring, reached, armed>>
  /\ UNCHANGED <<capacity, low_threshold, high_threshold, length, is_corked, wp_changed,
                 wVars, r_op, r_n, r_lowok, next_id, read_log, flushed, quiet, playVars>>

\* read: `length.fetch_sub(data.len())`, wrapping.
RSub ==
  /\ r_pc = "sub"
  /\ length' = length - r_n
  /\ r_pc' = "ulen"
  /\ UNCHANGED <<capacity, low_threshold, high_threshold, ring, is_corked, wp_changed,
                 wVars, r_op, r_n, r_out, r_lowok, obsVars, playVars>>

\* read: the left operand of `consumer.len() <= low_threshold && is_corked.get()`.
RUncorkLen ==
  /\ r_pc = "ulen"
  /\ r_lowok' = (Len(ring) <= low_threshold)
  /\ r_pc' = "uset"
  /\ UNCHANGED <<bufVars, wVars, r_op, r_n, r_out, obsVars, playVars>>

\* read: the right operand, and `is_corked.set(false)`.
RUncorkSet ==
  /\ r_pc = "uset"
  /\ is_corked' = (is_corked /\ ~r_lowok)
  /\ r_lowok' = FALSE
  /\ r_pc' = "ret"
  /\ UNCHANGED <<capacity, low_threshold, high_threshold, ring, length, wp_changed,
                 wVars, r_op, r_n, r_out, obsVars, playVars>>

\* flush: `consumer.pop_iter().collect()`; clear: `consumer.clear()`.
FPop ==
  /\ r_pc = "f_pop"
  /\ r_out' = IF r_op = "flush" THEN ring ELSE <<>>
  /\ ring' = <<>>
  /\ r_pc' = "f_store"
  /\ flushed' = TRUE
  /\ quiet' = (w_pc = "idle")
  /\ reached' = FALSE
  /\ armed' = FALSE
  /\ UNCHANGED <<capacity, low_threshold, high_threshold, length, is_corked, wp_changed,
                 wVars, r_op, r_n, r_lowok, next_id, read_log, playVars>>

\* flush, clear: `length.store(0)`.
FStore ==
  /\ r_pc = "f_store"
  /\ length' = 0
  /\ r_pc' = "f_uncork"
  /\ UNCHANGED <<capacity, low_threshold, high_threshold, ring, is_corked, wp_changed,
                 wVars, r_op, r_n, r_out, r_lowok, obsVars, playVars>>

\* flush, clear: `is_corked.set(false)`.
FUncorkIfLow ==
  /\ r_pc = "f_uncork"
  /\ is_corked' = (is_corked /\ Len(ring) > low_threshold)
  /\ r_pc' = "ret"
  /\ UNCHANGED <<capacity, low_threshold, high_threshold, ring, length, wp_changed,
                 wVars, r_op, r_n, r_out, r_lowok, obsVars, playVars>>

FUncork ==
  /\ r_pc = "f_uncork"
  /\ is_corked' = FALSE
  /\ r_pc' = "ret"
  /\ UNCHANGED <<capacity, low_threshold, high_threshold, ring, length, wp_changed,
                 wVars, r_op, r_n, r_out, r_lowok, obsVars, playVars>>

ReadStep == RCheck \/ RMark \/ RChanged \/ RPop \/ RSub \/ RUncorkLen \/ RUncorkSet

FlushStep == FPop \/ FStore \/ FUncork

\* -------------------------------------------------------- VoiceConnection

\* The values of the connection's variables while only the buffer runs.
NoConn ==
  [state |-> "Disconnected", ws |-> FALSE, udp |-> FALSE, udp_lock |-> "free",
   sequence |-> 0, paused |-> FALSE, silence_frames_left |-> 0,
   stop_udp_loop |-> FALSE, events |-> 0]

NoLoop ==
  [pc |-> "none", finished |-> FALSE, dropped |-> FALSE, flush |-> <<>>,
   branch_paused |-> FALSE, entered |-> FALSE, exit |-> "none", cleared |-> FALSE]

NoIng == [pc |-> "none", script |-> <<>>]

NoEnv ==
  [callers |-> {}, sp_pc |-> "idle", sp_val |-> FALSE, toggles |-> 0,
   st_pc |-> "idle", dc_pc |-> "idle", prev_cas |-> FALSE]

NoHist ==
  [source |-> <<>>, seq0 |-> 0, sent |-> 0, popped |-> 0, at_break |-> <<>>, flush_ran |-> FALSE,
   flush_sent |-> <<>>, stop_seen |-> FALSE, sent_at_stop |-> 0,
   acted |-> FALSE, io_failed |-> FALSE]

\* The values of the signaling variables while no signaling task runs;
\* peer_close = 0 stands for no Close frame received.
NoSig ==
  [task |-> "none", io |-> "run", read_q |-> 0, close_q |-> <<>>,
   peer_close |-> 0, texts |-> 0, beats |-> 0, resumes |-> 0, failures |-> 0,
   torn_down |-> FALSE]

\* The values of the remaining variables while their component is not the
\* one under study.
NoCc == [pc |-> "none", code |-> 0, variant |-> [tag |-> "none", code |-> 0],
         reconnect |-> FALSE, back |-> 0]

\* The last call on the transport: its argument, its result, and whether it
\* put a datagram on the socket.
NoUse == [op |-> "none", input |-> "none", result |-> "none", emitted |-> FALSE]

NoPk == [pc |-> "none", stage |-> "none", cipher |-> FALSE, sequence |-> 0,
         ts_hi |-> 0, ts_lo |-> 0, seq0 |-> 0, ts_hi0 |-> 0, ts_lo0 |-> 0,
         calls |-> 0, last |-> NoUse]

NoFlow == [pc |-> "none", impl |-> "none", value |-> "none", version |-> 0,
           setters |-> <<>>, sets |-> 0, sends |-> 0, waiters |-> <<>>]

\* `ws: RwLock<Option<WebSocketVoiceConnection>>`: None, or a session with
\* its `hello` and `ready` options and its IO task running (open) or ended.
NoSession == [some |-> FALSE, hello |-> FALSE, ready |-> FALSE, open |-> FALSE]

\* No IpDiscoveryResult yet.
NoIp == [address |-> "none", port |-> 0]

NoHs ==
  [pc |-> "none", op |-> "none", calls |-> 0, state |-> "Disconnected",
   version |-> 0, version_at_call |-> 0, ws |-> NoSession, me |-> NoSession,
   prior |-> NoSession, udp |-> FALSE, cipher |-> FALSE, ip |-> NoIp,
   sent |-> <<>>, rx |-> <<>>, rxd |-> <<>>, trace |-> <<>>, result |-> "none",
   failed_at |-> "none", open_at_check |-> FALSE]

\* No Player: the connection's state and stop flag as the Player's tasks
\* see them, the send tasks spawned by play (each with the position of its
\* run_udp_loop, why it left the tick loop, and whether its ingestion task
\* runs), the TrackFinished events sent on tx, the events the handler has
\* received, the position of a jump command and the play commands run.
NoPl ==
  [state |-> "Disconnected", stop_udp_loop |-> FALSE, tasks |-> <<>>,
   tx |-> <<>>, received |-> 0, jump |-> "none", commands |-> 0]

AuxIdle == cc = NoCc /\ pk = NoPk /\ flow = NoFlow /\ hs = NoHs /\ pl = NoPl

\* The buffer and the connection of a VoiceConnection fresh from new().
CoreIdle ==
  /\ capacity = ConnCapacity
  /\ low_threshold = ConnLow
  /\ high_threshold = ConnHigh
  /\ ring = <<>>
  /\ length = 0
  /\ is_corked = FALSE
  /\ wp_changed = FALSE
  /\ w_pc = "idle" /\ w_data = <<>> /\ w_len = 0
  /\ r_pc = "idle" /\ r_op = "read" /\ r_n = 0 /\ r_out = <<>> /\ r_lowok = FALSE
  /\ next_id = 1
  /\ read_log = <<>>
  /\ flushed = FALSE
  /\ quiet = FALSE
  /\ reached = FALSE
  /\ armed = FALSE
  /\ conn = NoConn
  /\ loop = NoLoop
  /\ ing = NoIng
  /\ env = NoEnv
  /\ hist = NoHist
  /\ sig = NoSig

\* `chunk.resize(PACKET_SIZE, 0f32)`: a zero block is 0.
Pad(chunk) == chunk \o [i \in 1..(PACKET_SIZE - Len(chunk)) |-> 0]

\* `data.chunks(PACKET_SIZE)`, each chunk padded.
RECURSIVE PaddedChunks(_)
PaddedChunks(data) ==
  IF data = <<>> THEN <<>>
  ELSE <<Pad(Take(data, PACKET_SIZE))>> \o PaddedChunks(Drop(data, PACKET_SIZE))

\* A return of run_udp_loop by `?`, or the unwinding of a panic: the locals
\* are dropped (the udp guard, _udp_drop_tx); nothing else is done.
Abandon(l, pc) == [l EXCEPT !.pc = pc, !.dropped = TRUE]

\* send_voice_packet: the header step, common to every frame.
NextSequenceSaturating(c) == [c EXCEPT !.sequence = Min(c.sequence + 1, 65535)]

NextSequence(c) == [c EXCEPT !.sequence = Wrap16(c.sequence + 1)]

\* run_udp_loop: `ws.ready.clone()`, the spawn of the ingestion task, and
\* the call of `sample_buffer.wait_for(low_threshold)`.
UStart ==
  /\ loop.pc = "u_start"
  /\ IF conn.ws
     THEN /\ loop' = [loop EXCEPT !.pc = "u_preroll"]
          /\ ing' = [ing EXCEPT !.pc = "run"]
          /\ r_pc' = "check" /\ r_op' = "wait" /\ r_n' = low_threshold
     ELSE /\ loop' = Abandon(loop, "failed")
          /\ UNCHANGED <<ing, r_pc, r_op, r_n>>
  /\ UNCHANGED <<bufVars, wVars, r_out, r_lowok, obsVars, conn, env, hist, sig, auxVars>>

\* run_udp_loop: wait_for has returned; `me.state.set(Playing)`.
UPrerollRet ==
  /\ loop.pc = "u_preroll"
  /\ r_pc = "ret"
  /\ r_pc' = "idle"
  /\ conn' = [conn EXCEPT !.state = "Playing"]
  /\ loop' = [loop EXCEPT !.pc = "u_deadline"]
  /\ UNCHANGED <<bufVars, wVars, r_op, r_n, r_out, r_lowok, obsVars, ing, env, hist, sig, auxVars>>

\* run_udp_loop: `udp.deadline = Instant::now()` under the udp guard.
UDeadline ==
  /\ loop.pc = "u_deadline"
  /\ conn.udp_lock = "free"
  /\ loop' = IF conn.udp THEN [loop EXCEPT !.pc = "u_top", !.entered = TRUE]
             ELSE Abandon(loop, "failed")
  /\ UNCHANGED <<bufVars, wVars, rVars, obsVars, conn, ing, env, hist, sig, auxVars>>

\* The tick loop: `if me.stop_udp_loop.load() { break }`.
UTop ==
  /\ loop.pc = "u_top"
  /\ IF conn.stop_udp_loop
     THEN /\ loop' = [loop EXCEPT !.pc = "u_flushchk", !.exit = "stopped"]
          /\ hist' = [hist EXCEPT !.stop_seen = TRUE, !.sent_at_stop = hist.sent]
     ELSE /\ loop' = [loop EXCEPT !.pc = "u_lock"]
          /\ UNCHANGED hist
  /\ UNCHANGED <<bufVars, wVars, rVars, obsVars, conn, ing, env, sig, auxVars>>

\* The tick loop: `me.udp.lock().await`; without a transport the early
\* return path begins with `sample_buffer.clear()`.
ULock ==
  /\ loop.pc = "u_lock"
  /\ conn.udp_lock = "free"
  /\ conn' = [conn EXCEPT !.udp_lock = "loop"]
  /\ IF conn.udp
     THEN /\ loop' = [loop EXCEPT !.pc = "u_branch"]
          /\ UNCHANGED <<r_pc, r_op>>
     ELSE /\ loop' = [loop EXCEPT !.pc = "u_gone"]
          /\ r_pc' = "f_pop" /\ r_op' = "clear"
  /\ UNCHANGED <<bufVars, wVars, r_n, r_out, r_lowok, obsVars, ing, env, hist, sig, auxVars>>

\* The early return: `me.state.set(Disconnected); return Ok(())`.
UGoneRet ==
  /\ loop.pc = "u_gone"
  /\ r_pc = "ret"
  /\ r_pc' = "idle"
  /\ conn' = [conn EXCEPT !.state = "Disconnected", !.udp_lock = "free"]
  /\ loop' = [Abandon(loop, "done") EXCEPT !.exit = "transport", !.cleared = TRUE]
  /\ UNCHANGED <<bufVars, wVars, r_op, r_n, r_out, r_lowok, obsVars, ing, env, hist, sig, auxVars>>

\* The tick loop: `if me.paused.get() && me.silence_frames_left.load() > 0`.
UBranch ==
  /\ loop.pc = "u_branch"
  /\ loop' = IF conn.paused /\ conn.silence_frames_left > 0
             THEN [loop EXCEPT !.pc = "u_dec", !.branch_paused = TRUE]
             ELSE [loop EXCEPT !.pc = "u_finchk", !.branch_paused = conn.paused]
  /\ UNCHANGED <<bufVars, wVars, rVars, obsVars, conn, ing, env, hist, sig, auxVars>>

\* The pause branch: `silence_frames_left.fetch_sub(1)`.
UDec ==
  /\ loop.pc = "u_dec"
  /\ conn' = [conn EXCEPT !.silence_frames_left = WrapU8(conn.silence_frames_left - 1)]
  /\ loop' = [loop EXCEPT !.pc = "u_silence"]
  /\ UNCHANGED <<bufVars, wVars, rVars, obsVars, ing, env, hist, sig, auxVars>>

\* The pause branch: `send_voice_packet(Opus(OPUS_SILENCE_FRAME)).await?`.
USilence ==
  /\ loop.pc = "u_silence"
  /\ \E ok \in BOOLEAN :
       /\ conn' = IF ok THEN NextSequence(conn)
                  ELSE [NextSequence(conn) EXCEPT !.udp_lock = "free"]
       /\ loop' = IF ok THEN [loop EXCEPT !.pc = "u_silence_chk"] ELSE Abandon(loop, "failed")
       /\ hist' = [hist EXCEPT !.io_failed = hist.io_failed \/ ~ok,
                               !.sent = IF ok THEN hist.sent + 1 ELSE hist.sent]
  /\ UNCHANGED <<bufVars, wVars, rVars, obsVars, ing, env, sig, auxVars>>

\* The pause branch: `if silence_frames_left.load() == 0 { wait for unpause }`.
USilenceChk ==
  /\ loop.pc = "u_silence_chk"
  /\ loop' = [loop EXCEPT !.pc = IF conn.silence_frames_left = 0
                                 THEN "u_unpause" ELSE "u_keepalive"]
  /\ UNCHANGED <<bufVars, wVars, rVars, obsVars, conn, ing, env, hist, sig, auxVars>>

\* The pause branch: `me.paused.wait_for(|paused| *paused == false).await`.
UUnpause ==
  /\ loop.pc = "u_unpause"
  /\ ~conn.paused
  /\ loop' = [loop EXCEPT !.pc = "u_keepalive"]
  /\ UNCHANGED <<bufVars, wVars, rVars, obsVars, conn, ing, env, hist, sig, auxVars>>

\* The audio branch: `if finished.load() { break }`, else the call of
\* `sample_buffer.read(&mut data)` with |data| = PACKET_SIZE.
UFinChk ==
  /\ loop.pc = "u_finchk"
  /\ IF loop.finished
     THEN /\ loop' = [loop EXCEPT !.pc = "u_flushchk", !.exit = "finished"]
          /\ conn' = [conn EXCEPT !.udp_lock = "free"]
          /\ hist' = [hist EXCEPT !.at_break = ring]
          /\ UNCHANGED <<r_pc, r_op, r_n, r_out>>
     ELSE /\ loop' = [loop EXCEPT !.pc = "u_read"]
          /\ r_pc' = "check" /\ r_op' = "read" /\ r_n' = PACKET_SIZE /\ r_out' = <<>>
          /\ UNCHANGED <<conn, hist>>
  /\ UNCHANGED <<bufVars, wVars, r_lowok, obsVars, ing, env, sig, auxVars>>

\* The audio branch: read has returned; the level check; then either
\* `send_voice_packet(Opus(OPUS_SILENCE_FRAME)).await?; continue` (the send
\* on events_tx above it is commented out) or
\* `send_voice_packet(Pcm(data)).await?`.
UReadRet ==
  /\ loop.pc = "u_read"
  /\ r_pc = "ret"
  /\ r_pc' = "idle"
  /\ \E loud \in BOOLEAN, ok \in BOOLEAN :
       /\ conn' = IF ok /\ ~loud THEN NextSequence(conn)
                  ELSE [NextSequence(conn) EXCEPT !.udp_lock = "free"]
       /\ loop' = IF ~ok THEN Abandon(loop, "failed")
                  ELSE IF loud THEN [loop EXCEPT !.pc = "u_top", !.branch_paused = FALSE]
                  ELSE [loop EXCEPT !.pc = "u_keepalive"]
       /\ hist' = [hist EXCEPT !.io_failed = hist.io_failed \/ ~ok,
                               !.sent = IF ok THEN hist.sent + 1 ELSE hist.sent,
                               !.popped = hist.popped + Len(r_out)]
  /\ r_out' = <<>>
  /\ UNCHANGED <<bufVars, wVars, r_op, r_n, r_lowok, obsVars, ing, env, sig, auxVars>>

\* The audio branch: the assertion of read has failed; the task unwinds.
UReadPanic ==
  /\ loop.pc = "u_read"
  /\ r_pc = "panic"
  /\ r_pc' = "dead"
  /\ conn' = [conn EXCEPT !.udp_lock = "free"]
  /\ loop' = Abandon(loop, "panicked")
  /\ UNCHANGED <<bufVars, wVars, r_op, r_n, r_out, r_lowok, obsVars, ing, env, hist, sig, auxVars>>

\* The tick loop: `if now >= heartbeat_time + 5 s { send_keepalive().await? }`,
\* then the end of the iteration, which drops the udp guard.
UKeepalive ==
  /\ loop.pc = "u_keepalive"
  /\ \E due \in BOOLEAN, ok \in BOOLEAN :
       /\ loop' = IF due /\ ~ok THEN Abandon(loop, "failed")
                  ELSE [loop EXCEPT !.pc = "u_top", !.branch_paused = FALSE]
       /\ hist' = [hist EXCEPT !.io_failed = hist.io_failed \/ (due /\ ~ok)]
  /\ conn' = [conn EXCEPT !.udp_lock = "free"]
  /\ UNCHANGED <<bufVars, wVars, rVars, obsVars, ing, env, sig, auxVars>>

\* After the loop: `if !me.stop_udp_loop.load() { sample_buffer.flush() ... }`,
\* else straight to `sample_buffer.clear()`.
UFlushChk ==
  /\ loop.pc = "u_flushchk"
  /\ r_pc' = "f_pop"
  /\ r_out' = <<>>
  /\ IF conn.stop_udp_loop
     THEN /\ r_op' = "clear"
          /\ loop' = [loop EXCEPT !.pc = "u_clear"]
          /\ hist' = IF hist.stop_seen THEN hist
                     ELSE [hist EXCEPT !.stop_seen = TRUE, !.sent_at_stop = hist.sent]
     ELSE /\ r_op' = "flush"
          /\ loop' = [loop EXCEPT !.pc = "u_flush"]
          /\ hist' = [hist EXCEPT !.flush_ran = TRUE]
  /\ UNCHANGED <<bufVars, wVars, r_n, r_lowok, obsVars, conn, ing, env, sig, auxVars>>

\* The flush: flush() has returned `data`; `for chunk in data.chunks(PACKET_SIZE)`.
UFlushRet ==
  /\ loop.pc = "u_flush"
  /\ r_pc = "ret"
  /\ IF r_out = <<>>
     THEN /\ r_pc' = "f_pop" /\ r_op' = "clear"
          /\ loop' = [loop EXCEPT !.pc = "u_clear"]
     ELSE /\ r_pc' = "idle" /\ r_op' = r_op
          /\ loop' = [loop EXCEPT !.pc = "u_flush_send", !.flush = r_out]
  /\ r_out' = <<>>
  /\ UNCHANGED <<bufVars, wVars, r_n, r_lowok, obsVars, conn, ing, env, hist, sig, auxVars>>

\* The flush: one padded chunk: `me.udp.lock()`, `context("no voice UDP
\* socket")?`, `send_voice_packet(Pcm(chunk)).await?`.
UFlushSend ==
  /\ loop.pc = "u_flush_send"
  /\ conn.udp_lock = "free"
  /\ IF ~conn.udp
     THEN /\ loop' = Abandon(loop, "failed")
          /\ UNCHANGED <<conn, hist, r_pc, r_op>>
     ELSE \E ok \in BOOLEAN :
          /\ conn' = NextSequence(conn)
          /\ hist' = [hist EXCEPT !.io_failed = hist.io_failed \/ ~ok,
                                  !.sent = IF ok THEN hist.sent + 1 ELSE hist.sent,
                                  !.flush_sent = IF ok
                                                 THEN Append(hist.flush_sent, Pad(Take(loop.flush, PACKET_SIZE)))
                                                 ELSE hist.flush_sent]
          /\ IF ~ok
             THEN /\ loop' = Abandon(loop, "failed")
                  /\ UNCHANGED <<r_pc, r_op>>
             ELSE IF Drop(loop.flush, PACKET_SIZE) = <<>>
             THEN /\ loop' = [loop EXCEPT !.pc = "u_clear", !.flush = <<>>]
                  /\ r_pc' = "f_pop" /\ r_op' = "clear"
             ELSE /\ loop' = [loop EXCEPT !.flush = Drop(loop.flush, PACKET_SIZE)]
                  /\ UNCHANGED <<r_pc, r_op>>
  /\ UNCHANGED <<bufVars, wVars, r_n, r_out, r_lowok, obsVars, ing, env, sig, auxVars>>

\* The end: clear() has returned; `me.state.set(Connected); Ok(())`.
UClearRet ==
  /\ loop.pc = "u_clear"
  /\ r_pc = "ret"
  /\ r_pc' = "idle"
  /\ conn' = [conn EXCEPT !.state = "Connected"]
  /\ loop' = [Abandon(loop, "done") EXCEPT !.cleared = TRUE]
  /\ UNCHANGED <<bufVars, wVars, r_op, r_n, r_out, r_lowok, obsVars, ing, env, hist, sig, auxVars>>

UdpLoopStep ==
  \/ UStart \/ UPrerollRet \/ UDeadline \/ UTop \/ ULock \/ UGoneRet \/ UBranch
  \/ UDec \/ USilence \/ USilenceChk \/ UUnpause \/ UFinChk \/ UReadRet
  \/ UReadPanic \/ UKeepalive \/ UFlushChk \/ UFlushRet \/ UFlushSend \/ UClearRet

\* The steps of the send task itself: run_udp_loop and the buffer calls it
\* awaits.
SendTaskStep == UdpLoopStep \/ ReadStep \/ FlushStep

\* The ingestion task: `sample_provider.get_samples()` on a blocking worker;
\* Some(data) starts `sample_buffer.write(&data)`, None ends the task with
\* `finished.store(true)`.
IngGetEmptyEnds ==
  /\ ing.pc = "run"
  /\ w_pc = "idle"
  /\ IF ing.script = <<>> \/ Head(ing.script) = 0
     THEN /\ ing' = [ing EXCEPT !.pc = "done"]
          /\ loop' = [loop EXCEPT !.finished = TRUE]
          /\ UNCHANGED <<w_pc, w_data, next_id, quiet>>
     ELSE /\ ing' = [ing EXCEPT !.script = Tail(ing.script)]
          /\ quiet' = FALSE
          /\ w_data' = Ids(next_id, Head(ing.script))
          /\ next_id' = next_id + Head(ing.script)
          /\ w_pc' = "w_wait"
          /\ UNCHANGED loop
  /\ UNCHANGED <<bufVars, w_len, rVars, read_log, flushed, reached, armed, conn, env, hist, sig, auxVars>>

IngGet ==
  /\ ing.pc = "run"
  /\ w_pc = "idle"
  /\ IF ing.script = <<>>
     THEN /\ ing' = [ing EXCEPT !.pc = "done"]
          /\ loop' = [loop EXCEPT !.finished = TRUE]
          /\ UNCHANGED <<w_pc, w_data, next_id, quiet>>
     ELSE /\ ing' = [ing EXCEPT !.script = Tail(ing.script)]
          /\ quiet' = FALSE
          /\ w_data' = Ids(next_id, Head(ing.script))
          /\ next_id' = next_id + Head(ing.script)
          /\ w_pc' = "w_wait"
          /\ UNCHANGED loop
  /\ UNCHANGED <<bufVars, w_len, rVars, read_log, flushed, reached, armed, conn, env, hist, sig, auxVars>>

\* The ingestion task: the select! takes `udp_drop_rx.recv_async()`, which
\* is ready once run_udp_loop has dropped the sender, at a poll of the write
\* future; the write is dropped where it waits.
IngCancel ==
  /\ ing.pc = "run"
  /\ w_pc \in {"w_wait", "w_uncork_wait"}
  /\ loop.dropped
  /\ w_pc' = "idle"
  /\ w_data' = <<>>
  /\ ing' = [ing EXCEPT !.pc = "done"]
  /\ loop' = [loop EXCEPT !.finished = TRUE]
  /\ UNCHANGED <<bufVars, w_len, rVars, obsVars, conn, env, hist, sig, auxVars>>

IngestStep == IngGet \/ IngCancel

\* set_paused(!is_paused()): `self.paused.set(is_paused)` and the reset of rms.
SetPausedSet ==
  /\ (IF conn.paused THEN "resume" ELSE "pause") \in env.callers
  /\ env.sp_pc = "idle"
  /\ env.toggles < MaxToggles
  /\ conn' = [conn EXCEPT !.paused = ~conn.paused]
  /\ env' = [env EXCEPT !.sp_pc = "store", !.sp_val = ~conn.paused, !.toggles = env.toggles + 1]
  /\ hist' = [hist EXCEPT !.acted = TRUE]
  /\ UNCHANGED <<bufVars, wVars, rVars, obsVars, loop, ing, sig, auxVars>>

\* set_paused: `silence_frames_left.store(OPUS_SILENCE_FRAMES or 0)`.
SetPausedStore ==
  /\ env.sp_pc = "store"
  /\ conn' = [conn EXCEPT !.silence_frames_left = IF env.sp_val THEN OPUS_SILENCE_FRAMES ELSE 0]
  /\ env' = [env EXCEPT !.sp_pc = "idle"]
  /\ UNCHANGED <<bufVars, wVars, rVars, obsVars, loop, ing, hist, sig, auxVars>>

\* Player::stop: the state check, passed only while Playing.
StopCheck ==
  /\ "stop" \in env.callers
  /\ env.st_pc = "idle"
  /\ conn.state = "Playing"
  /\ env' = [env EXCEPT !.st_pc = "store"]
  /\ hist' = [hist EXCEPT !.acted = TRUE]
  /\ UNCHANGED <<bufVars, wVars, rVars, obsVars, conn, loop, ing, sig, auxVars>>

\* Player::stop: `stop_udp_loop.store(true)`.
StopStore ==
  /\ env.st_pc = "store"
  /\ conn' = [conn EXCEPT !.stop_udp_loop = TRUE]
  /\ env' = [env EXCEPT !.st_pc = "wait"]
  /\ UNCHANGED <<bufVars, wVars, rVars, obsVars, loop, ing, hist, sig, auxVars>>

\* Player::stop: `state.wait_for(|state| *state != Playing)` returns.
StopWait ==
  /\ env.st_pc = "wait"
  /\ conn.state # "Playing"
  /\ env' = [env EXCEPT !.st_pc = "done"]
  /\ UNCHANGED <<bufVars, wVars, rVars, obsVars, conn, loop, ing, hist, sig, auxVars>>

\* disconnect: `self.state.set(Disconnected)`.
DisconnectState ==
  /\ "disconnect" \in env.callers
  /\ env.dc_pc = "idle"
  /\ conn' = [conn EXCEPT !.state = "Disconnected"]
  /\ env' = [env EXCEPT !.dc_pc = "udp"]
  /\ hist' = [hist EXCEPT !.acted = TRUE]
  /\ UNCHANGED <<bufVars, wVars, rVars, obsVars, loop, ing, sig, auxVars>>

\* disconnect: `*self.udp.lock().await = None`.
DisconnectUdp ==
  /\ env.dc_pc = "udp"
  /\ conn.udp_lock = "free"
  /\ conn' = [conn EXCEPT !.udp = FALSE]
  /\ env' = [env EXCEPT !.dc_pc = "ws"]
  /\ UNCHANGED <<bufVars, wVars, rVars, obsVars, loop, ing, hist, sig, auxVars>>

\* disconnect: the close of the session and `*ws_lock = None`.
DisconnectWs ==
  /\ env.dc_pc = "ws"
  /\ conn' = [conn EXCEPT !.ws = FALSE]
  /\ env' = [env EXCEPT !.dc_pc = "done"]
  /\ UNCHANGED <<bufVars, wVars, rVars, obsVars, loop, ing, hist, sig, auxVars>>

\* The send task of an earlier play, whose run_udp_loop has returned:
\* `stop_udp_loop.compare_exchange(true, false)`.
PrevTaskCas ==
  /\ env.prev_cas
  /\ conn' = [conn EXCEPT !.stop_udp_loop = FALSE]
  /\ env' = [env EXCEPT !.prev_cas = FALSE]
  /\ UNCHANGED <<bufVars, wVars, rVars, obsVars, loop, ing, hist, sig, auxVars>>

CallerStep ==
  \/ SetPausedSet \/ SetPausedStore \/ StopCheck \/ StopStore \/ StopWait
  \/ DisconnectState \/ DisconnectUdp \/ DisconnectWs \/ PrevTaskCas

\* A connected VoiceConnection on which Player::play has just spawned the
\* send task; the provider will yield the chunks of `script`, then None.
InitPlay ==
  /\ capacity = ConnCapacity
  /\ low_threshold = ConnLow
  /\ high_threshold = ConnHigh
  /\ ring = <<>>
  /\ length = 0
  /\ is_corked = FALSE
  /\ wp_changed = FALSE
  /\ w_pc = "idle" /\ w_data = <<>> /\ w_len = 0
  /\ r_pc = "idle" /\ r_op = "read" /\ r_n = 0 /\ r_out = <<>> /\ r_lowok = FALSE
  /\ next_id = 1
  /\ read_log = <<>>
  /\ flushed = FALSE
  /\ quiet = FALSE
  /\ reached = FALSE
  /\ armed = FALSE
  /\ \E seq \in SequenceStarts, sc \in Scenarios, stop \in BOOLEAN :
       /\ stop => "prev" \in sc.who
       /\ conn = [NoConn EXCEPT !.state = "Connected", !.ws = TRUE, !.udp = TRUE,
                                !.sequence = seq, !.stop_udp_loop = stop]
       /\ env = [NoEnv EXCEPT !.callers = sc.who, !.prev_cas = "prev" \in sc.who]
       /\ hist = [NoHist EXCEPT !.seq0 = seq, !.source = sc.script]
       /\ ing = [NoIng EXCEPT !.script = sc.script]
  /\ loop = [NoLoop EXCEPT !.pc = "u_start"]
  /\ sig = NoSig
  /\ AuxIdle

NextPlay == UdpLoopStep \/ IngestStep \/ WriteStep \/ ReadStep \/ FlushStep \/ CallerStep

SpecPlay == InitPlay /\ [][NextPlay]_vars

\* ------------------------------------------------------ the signaling side

\* From<u16> for GatewayCloseCode: the variant, and for Unknown its payload.
GatewayCloseCode(code) ==
  CASE code = 4001 -> [tag |-> "UnknownOpcode", code |-> 0]
    [] code = 4002 -> [tag |-> "FailedToDecodePayload", code |-> 0]
    [] code = 4003 -> [tag |-> "NotAuthenticated", code |-> 0]
    [] code = 4004 -> [tag |-> "AuthenticationFailed", code |-> 0]
    [] code = 4005 -> [tag |-> "AlreadyAuthenticated", code |-> 0]
    [] code = 4006 -> [tag |-> "SessionNoLongerValid", code |-> 0]
    [] code = 4009 -> [tag |-> "SessionTimeout", code |-> 0]
    [] code = 4011 -> [tag |-> "ServerNotFound", code |-> 0]
    [] code = 4012 -> [tag |-> "UnknownProtocol", code |-> 0]
    [] code = 4014 -> [tag |-> "Disconnected", code |-> 0]
    [] code = 4015 -> [tag |-> "VoiceServerCrashed", code |-> 0]
    [] code = 4016 -> [tag |-> "UnknownEncryptionMode", code |-> 0]
    [] OTHER -> [tag |-> "Unknown", code |-> code]

\* From<GatewayCloseCode> for u16.
CloseCodeToU16(c) ==
  CASE c.tag = "UnknownOpcode" -> 4001
    [] c.tag = "FailedToDecodePayload" -> 4002
    [] c.tag = "NotAuthenticated" -> 4003
    [] c.tag = "AuthenticationFailed" -> 4004
    [] c.tag = "AlreadyAuthenticated" -> 4005
    [] c.tag = "SessionNoLongerValid" -> 4006
    [] c.tag = "SessionTimeout" -> 4009
    [] c.tag = "ServerNotFound" -> 4011
    [] c.tag = "UnknownProtocol" -> 4012
    [] c.tag = "Disconnected" -> 4014
    [] c.tag = "VoiceServerCrashed" -> 4015
    [] c.tag = "UnknownEncryptionMode" -> 4016
    [] OTHER -> c.code

\* GatewayCloseCode::can_reconnect.
can_reconnect_timeout(c) == c.tag \in {"VoiceServerCrashed", "SessionTimeout"}

can_reconnect(c) == c.tag = "VoiceServerCrashed"

\* `close_rx_tx.send_async(frame);` builds the send future and drops it
\* unpolled: the channel is left as it was.
SendAsyncDropped(q, frame) == q

\* The text frames of the peer: a packet with a known opcode, a packet that
\* parses but fails TryInto<GatewayEvent>, and a text serde_json rejects.
TextFrames == {"event", "undecodable", "malformed"}

\* The IO task: `read_tx.send_async(serde_json::from_str(&json).unwrap())`:
\* a text that parses goes to the read channel, one that does not panics
\* the task at the unwrap.
IoText ==
  /\ sig.io = "run"
  /\ sig.texts < MaxEvents
  /\ \E text \in TextFrames :
       sig' = IF text = "malformed"
              THEN [sig EXCEPT !.io = "ended", !.texts = sig.texts + 1]
              ELSE [sig EXCEPT !.read_q = sig.read_q + 1, !.texts = sig.texts + 1]
  /\ UNCHANGED <<bufVars, wVars, rVars, obsVars, conn, loop, ing, env, hist, auxVars>>

\* The IO task: a Close frame of the peer.
IoClose ==
  /\ sig.io = "run"
  /\ \E code \in CloseCodes :
       sig' = [sig EXCEPT !.io = "closing", !.peer_close = code,
                          !.close_q = SendAsyncDropped(sig.close_q, code)]
  /\ UNCHANGED <<bufVars, wVars, rVars, obsVars, conn, loop, ing, env, hist, auxVars>>

\* The IO task: `socket.next()` yields None, or an error that `unwrap`
\* turns into a panic; the task ends and its senders are dropped.
IoEnd ==
  /\ sig.io \in {"run", "closing"}
  /\ sig' = [sig EXCEPT !.io = "ended"]
  /\ UNCHANGED <<bufVars, wVars, rVars, obsVars, conn, loop, ing, env, hist, auxVars>>

\* run_ws_loop: the clones of `ws.read` and `ws.close_rx`, or the error
\* "no voice gateway connection".
WsLoopStart ==
  /\ sig.task = "start"
  /\ sig' = [sig EXCEPT !.task = IF conn.ws THEN "loop" ELSE "backoff"]
  /\ UNCHANGED <<bufVars, wVars, rVars, obsVars, conn, loop, ing, env, hist, auxVars>>

\* run_ws_loop: `read.recv_async()` yields an event, which is logged.
WsLoopRead ==
  /\ sig.task = "loop"
  /\ sig.read_q > 0
  /\ sig' = [sig EXCEPT !.read_q = sig.read_q - 1]
  /\ UNCHANGED <<bufVars, wVars, rVars, obsVars, conn, loop, ing, env, hist, auxVars>>

\* run_ws_loop, the interval branch: `me.ws.read()`, the session or a
\* return by `?`, then `send_heartbeat()`, which fails, and ends the loop,
\* once the IO task has dropped the write channel.
WsLoopHeartbeat ==
  /\ sig.task = "loop"
  /\ sig.beats < MaxEvents
  /\ sig' = IF ~conn.ws THEN [sig EXCEPT !.task = "backoff"]
            ELSE IF sig.io = "ended" THEN [sig EXCEPT !.task = "await_close"]
            ELSE [sig EXCEPT !.beats = sig.beats + 1]
  /\ UNCHANGED <<bufVars, wVars, rVars, obsVars, conn, loop, ing, env, hist, auxVars>>

\* run_ws_loop: `read.recv_async()` fails on the drained, disconnected
\* channel: `break`.
WsLoopBreak ==
  /\ sig.task = "loop"
  /\ sig.io = "ended"
  /\ sig.read_q = 0
  /\ sig' = [sig EXCEPT !.task = "await_close"]
  /\ UNCHANGED <<bufVars, wVars, rVars, obsVars, conn, loop, ing, env, hist, auxVars>>

\* reconnect_ws, as called at `pc`: `ws.take().expect(..)`, then
\* WebSocketVoiceConnection::new(Resume {..}).await? .
ReconnectOutcome(ok) ==
  IF ~conn.ws
  THEN /\ sig' = [sig EXCEPT !.task = "panicked"]
       /\ UNCHANGED conn
  ELSE IF ok
  THEN /\ sig' = [sig EXCEPT !.task = "start", !.io = "run", !.read_q = 0,
                             !.close_q = <<>>, !.peer_close = 0, !.beats = 0,
                             !.resumes = sig.resumes + 1]
       /\ UNCHANGED conn
  ELSE /\ sig' = [sig EXCEPT !.task = "backoff", !.failures = sig.failures + 1]
       /\ conn' = [conn EXCEPT !.ws = FALSE]

\* run_ws_loop: `close.recv_async().await?` and the handling of the frame;
\* where run_ws_loop returns Ok(()), the ws task of Player::connect leaves
\* its loop and stores the stop flag.
WsAwaitClose ==
  /\ sig.task = "await_close"
  /\ sig.close_q # <<>> \/ sig.io = "ended"
  /\ IF sig.close_q = <<>>
     THEN /\ sig' = [sig EXCEPT !.task = "backoff"]
          /\ UNCHANGED conn
     ELSE IF can_reconnect(GatewayCloseCode(Head(sig.close_q)))
     THEN \E ok \in BOOLEAN :
            IF conn.ws /\ ok
            THEN /\ sig' = [sig EXCEPT !.task = "exited", !.io = "run", !.read_q = 0,
                                       !.close_q = <<>>, !.peer_close = 0, !.beats = 0,
                                       !.resumes = sig.resumes + 1]
                 /\ conn' = [conn EXCEPT !.stop_udp_loop = TRUE]
            ELSE ReconnectOutcome(ok)
     ELSE /\ conn' = [conn EXCEPT !.state = "Disconnected", !.udp = FALSE,
                                  !.ws = FALSE, !.stop_udp_loop = TRUE]
          /\ sig' = [sig EXCEPT !.task = "exited", !.torn_down = TRUE,
                                !.close_q = Tail(sig.close_q)]
  /\ UNCHANGED <<bufVars, wVars, rVars, obsVars, loop, ing, env, hist, auxVars>>

\* The ws task of Player::connect: `time::sleep(3000 ms)` after an error.
TaskSleep ==
  /\ sig.task = "backoff"
  /\ sig' = [sig EXCEPT !.task = "reconnect"]
  /\ UNCHANGED <<bufVars, wVars, rVars, obsVars, conn, loop, ing, env, hist, auxVars>>

\* The ws task of Player::connect:
\* `connection_weak.upgrade().unwrap().reconnect_ws().await`.
TaskReconnect ==
  /\ sig.task = "reconnect"
  /\ \E ok \in BOOLEAN :
       /\ ok => sig.resumes < MaxResumes
       /\ ~ok => sig.failures < MaxFailures
       /\ ReconnectOutcome(ok)
  /\ UNCHANGED <<bufVars, wVars, rVars, obsVars, loop, ing, env, hist, auxVars>>

\* A connected VoiceConnection whose ws task has just been spawned.
InitWs ==
  /\ capacity = ConnCapacity
  /\ low_threshold = ConnLow
  /\ high_threshold = ConnHigh
  /\ ring = <<>>
  /\ length = 0
  /\ is_corked = FALSE
  /\ wp_changed = FALSE
  /\ w_pc = "idle" /\ w_data = <<>> /\ w_len = 0
  /\ r_pc = "idle" /\ r_op = "read" /\ r_n = 0 /\ r_out = <<>> /\ r_lowok = FALSE
  /\ next_id = 1
  /\ read_log = <<>>
  /\ flushed = FALSE
  /\ quiet = FALSE
  /\ reached = FALSE
  /\ armed = FALSE
  /\ conn = [NoConn EXCEPT !.state = "Connected", !.ws = TRUE, !.udp = TRUE]
  /\ loop = NoLoop
  /\ ing = NoIng
  /\ env = NoEnv
  /\ hist = NoHist
  /\ sig = [NoSig EXCEPT !.task = "start"]
  /\ AuxIdle

NextWs ==
  \/ IoText \/ IoClose \/ IoEnd
  \/ WsLoopStart \/ WsLoopRead \/ WsLoopHeartbeat \/ WsLoopBreak \/ WsAwaitClose
  \/ TaskSleep \/ TaskReconnect

SpecWs == InitWs /\ [][NextWs]_vars

\* ------------------------------------------------- close codes in isolation

\* The close codes of a 16-bit close frame.
U16 == 0..(Wrap16(-1))

\* GatewayCloseCode::from(code).
CcFrom ==
  /\ cc.pc = "in"
  /\ cc' = [cc EXCEPT !.pc = "from", !.variant = GatewayCloseCode(cc.code)]
  /\ UNCHANGED <<coreVars, pk, flow, hs, pl>>

\* code.can_reconnect().
CcCanReconnect ==
  /\ cc.pc = "from"
  /\ cc' = [cc EXCEPT !.pc = "query", !.reconnect = can_reconnect(cc.variant)]
  /\ UNCHANGED <<coreVars, pk, flow, hs, pl>>

\* u16::from(code).
CcInto ==
  /\ cc.pc = "query"
  /\ cc' = [cc EXCEPT !.pc = "done", !.back = CloseCodeToU16(cc.variant)]
  /\ UNCHANGED <<coreVars, pk, flow, hs, pl>>

InitCode ==
  /\ CoreIdle
  /\ cc \in {[NoCc EXCEPT !.pc = "in", !.code = c] : c \in U16}
  /\ pk = NoPk /\ flow = NoFlow /\ hs = NoHs /\ pl = NoPl

NextCode == CcFrom \/ CcCanReconnect \/ CcInto

SpecCode == InitCode /\ [][NextCode]_vars

\* --------------------------------------------- the RTP counters in isolation

\* `udp.timestamp += TIMESTAMP_STEP as u32` on a Wrap32, kept as two 16-bit
\* halves: the low half and its carry into the high half.
NextTimestamp(c) ==
  [c EXCEPT !.ts_lo = Wrap16(c.ts_lo + TIMESTAMP_STEP),
            !.ts_hi = Wrap16(c.ts_hi + ((c.ts_lo + TIMESTAMP_STEP) \div 65536))]

\* send_voice_packet with an audio (Pcm), silence or flush frame: without a
\* cipher it returns before the header; else the header step, then the
\* encoding, the encryption and the send, which may fail.
SendVoicePacketHeaderFirst(p, frame, ok) ==
  LET header == [NextTimestamp(NextSequence(p)) EXCEPT !.calls = p.calls + 1] IN
  IF ~p.cipher
  THEN [header EXCEPT !.last = [op |-> "send_voice_packet", input |-> frame,
                                result |-> "no voice cipher", emitted |-> FALSE]]
  ELSE [header EXCEPT !.last = [op |-> "send_voice_packet", input |-> frame,
                                result |-> IF ok THEN "ok" ELSE "error",
                                emitted |-> ok]]

SendVoicePacket(p, frame, ok) ==
  IF ~p.cipher
  THEN [p EXCEPT !.last = [op |-> "send_voice_packet", input |-> frame,
                           result |-> "no voice cipher", emitted |-> FALSE]]
  ELSE [NextTimestamp(NextSequence(p)) EXCEPT
          !.calls = p.calls + 1,
          !.last = [op |-> "send_voice_packet", input |-> frame,
                    result |-> IF ok THEN "ok" ELSE "error", emitted |-> ok]]

PkSendVoicePacket ==
  /\ pk.pc = "run"
  /\ pk.calls < MaxFrames
  /\ \E frame \in {"Pcm", "Opus"}, ok \in BOOLEAN :
       pk' = SendVoicePacket(pk, frame, ok)
  /\ UNCHANGED <<coreVars, cc, flow, hs, pl>>

\* recv_rtcp_stats: try_recv_from (nothing there, an IO error, a datagram
\* shorter than its nonce, a report), then the cipher or the no-cipher
\* error, then the decryption.
RecvRtcpStats(p, datagram) ==
  [p EXCEPT !.last = [op |-> "recv_rtcp_stats", input |-> datagram,
                      result |-> CASE datagram = "WouldBlock" -> "ok"
                                   [] datagram = "io error" -> "error"
                                   [] datagram = "short" -> "panic"
                                   [] OTHER -> IF p.cipher THEN "ok"
                                                           ELSE "no voice cipher",
                      emitted |-> FALSE]]

PkRecvRtcpStats ==
  /\ pk.pc = "run"
  /\ \E datagram \in {"WouldBlock", "io error", "short", "report"} :
       pk' = RecvRtcpStats(pk, datagram)
  /\ UNCHANGED <<coreVars, cc, flow, hs, pl>>

\* UdpVoiceConnection::send_keepalive.
PkSendKeepalive ==
  /\ pk.pc = "run"
  /\ \E ok \in BOOLEAN :
       pk' = [pk EXCEPT !.last = [op |-> "send_keepalive", input |-> "none",
                                  result |-> IF ok THEN "ok" ELSE "error",
                                  emitted |-> ok]]
  /\ UNCHANGED <<coreVars, cc, flow, hs, pl>>

\* connect: the SessionDescription that ends its wait.
PkSessionDescription ==
  /\ pk.pc = "run"
  /\ pk.stage = "describe"
  /\ pk' = [pk EXCEPT !.stage = "key"]
  /\ UNCHANGED <<coreVars, cc, flow, hs, pl>>

\* connect: `*self.cipher.lock().await = Some(XSalsa20Poly1305::new(&key))`.
PkInstallKey ==
  /\ pk.pc = "run"
  /\ pk.stage = "key"
  /\ pk' = [pk EXCEPT !.cipher = TRUE, !.stage = "done"]
  /\ UNCHANGED <<coreVars, cc, flow, hs, pl>>

\* UdpVoiceConnection::new, in connect before the key exists, draws both
\* counters at random.
CounterStarts == {<<0, 0, 0>>, <<65535, 65535, 65000>>}

InitPk ==
  /\ CoreIdle
  /\ \E st \in CounterStarts :
       pk = [NoPk EXCEPT !.pc = "run", !.stage = "describe",
                         !.sequence = st[1], !.ts_hi = st[2], !.ts_lo = st[3],
                         !.seq0 = st[1], !.ts_hi0 = st[2], !.ts_lo0 = st[3]]
  /\ cc = NoCc /\ flow = NoFlow /\ hs = NoHs /\ pl = NoPl

NextPk ==
  \/ PkSendVoicePacket \/ PkRecvRtcpStats \/ PkSendKeepalive
  \/ PkSessionDescription \/ PkInstallKey

SpecPk == InitPk /\ [][NextPk]_vars

\* ------------------------------------------------- StateFlow in isolation

\* The cell holds a VoiceConnectionState; the closure is the one of
\* Player::stop, `|state| *state != VoiceConnectionState::Playing`.
FlowValues == {"Disconnected", "Connected", "Playing"}

block(value) == value # "Playing"

Setters == {"s1", "s2"}

Waiters == {"a1", "a2"}

\* utils has wait_for and await_change, the worker only await_change.
FlowOps(impl) == IF impl = "utils" THEN {"wait_for", "await_change"} ELSE {"await_change"}

IdleSetter == [pc |-> "idle"]

IdleWaiter ==
  [pc |-> "idle", op |-> "none", seen |-> 0, seen_sends |-> 0, got |-> "none",
   first |-> "none", immediate |-> FALSE, at_call |-> 0, at_wake |-> 0,
   sets_at_get |-> 0]

\* watch::Sender::send: a new version, which every receiver that has not
\* seen it finds changed.
SendVersionKeep(version) == version

SendVersion(version) == version + 1

\* The place where a waiter is suspended in `receiver.changed().await`.
AtChanged(w) ==
  \/ w.pc = "wait"
  \/ w.op = "await_change" /\ flow.impl = "utils" /\ w.pc = "updated"
  \/ w.op = "await_change" /\ flow.impl = "worker" /\ w.pc = "cloned"

\* set, first half: `*self.inner.write() = value`.
FlowSetWrite(t) ==
  /\ flow.pc = "run"
  /\ flow.setters[t].pc = "idle"
  /\ flow.sets < MaxSets
  /\ \E value \in FlowValues :
       flow' = [flow EXCEPT !.value = value, !.sets = @ + 1,
                            !.setters[t].pc = "written"]
  /\ UNCHANGED <<coreVars, cc, pk, hs, pl>>

\* set, second half: `self.sender.send(())`.
FlowSetSend(t) ==
  /\ flow.pc = "run"
  /\ flow.setters[t].pc = "written"
  /\ flow' = [flow EXCEPT !.version = SendVersion(@), !.sends = @ + 1,
                          !.setters[t].pc = "idle"]
  /\ UNCHANGED <<coreVars, cc, pk, hs, pl>>

\* `let mut receiver = self.receiver.clone()`: the field is never updated, so
\* the clone has seen the version of the construction.
FlowClone(a) ==
  /\ flow.pc = "run"
  /\ flow.waiters[a].pc = "idle"
  /\ \E op \in FlowOps(flow.impl) :
       flow' = [flow EXCEPT !.waiters[a] =
                  [@ EXCEPT !.pc = "cloned", !.op = op, !.seen = 0,
                            !.seen_sends = 0, !.at_call = flow.sends]]
  /\ UNCHANGED <<coreVars, cc, pk, hs, pl>>

\* `receiver.borrow_and_update()` (utils only).
FlowBorrowAndUpdate(a) ==
  /\ flow.pc = "run"
  /\ flow.impl = "utils"
  /\ flow.waiters[a].pc = "cloned"
  /\ flow' = [flow EXCEPT !.waiters[a] =
                 [@ EXCEPT !.pc = "updated", !.seen = flow.version,
                           !.seen_sends = flow.sends]]
  /\ UNCHANGED <<coreVars, cc, pk, hs, pl>>

\* wait_for: the check of the current value before the loop.
FlowCheck(a) ==
  /\ flow.pc = "run"
  /\ flow.waiters[a].op = "wait_for"
  /\ flow.waiters[a].pc = "updated"
  /\ flow' = [flow EXCEPT !.waiters[a] =
                 [@ EXCEPT !.pc = IF block(flow.value) THEN "done" ELSE "wait",
                           !.first = flow.value, !.got = flow.value,
                           !.immediate = block(flow.value),
                           !.sets_at_get = flow.sets]]
  /\ UNCHANGED <<coreVars, cc, pk, hs, pl>>

\* `receiver.changed().await` returns: the version is not the one seen.
FlowChanged(a) ==
  /\ flow.pc = "run"
  /\ AtChanged(flow.waiters[a])
  /\ flow.version # flow.waiters[a].seen
  /\ flow' = [flow EXCEPT !.waiters[a] =
                 [@ EXCEPT !.pc = "woken", !.seen = flow.version,
                           !.seen_sends = flow.sends, !.at_wake = flow.sends]]
  /\ UNCHANGED <<coreVars, cc, pk, hs, pl>>

\* `self.get()` after the wake-up: await_change returns it, wait_for
\* returns it when the closure accepts it and waits again otherwise.
FlowGet(a) ==
  /\ flow.pc = "run"
  /\ flow.waiters[a].pc = "woken"
  /\ flow' = [flow EXCEPT !.waiters[a] =
                 [@ EXCEPT !.pc = IF flow.waiters[a].op = "await_change" \/ block(flow.value)
                                  THEN "done" ELSE "wait",
                           !.got = flow.value, !.sets_at_get = flow.sets]]
  /\ UNCHANGED <<coreVars, cc, pk, hs, pl>>

InitFlow ==
  /\ CoreIdle
  /\ \E impl \in {"utils", "worker"}, value \in FlowValues :
       flow = [NoFlow EXCEPT !.pc = "run", !.impl = impl, !.value = value,
                             !.setters = [t \in Setters |-> IdleSetter],
                             !.waiters = [a \in Waiters |-> IdleWaiter]]
  /\ cc = NoCc /\ pk = NoPk /\ hs = NoHs /\ pl = NoPl

NextFlow ==
  \/ \E t \in Setters : FlowSetWrite(t) \/ FlowSetSend(t)
  \/ \E a \in Waiters :
       \/ FlowClone(a) \/ FlowBorrowAndUpdate(a) \/ FlowCheck(a)
       \/ FlowChanged(a) \/ FlowGet(a)

SpecFlow == InitFlow /\ [][NextFlow]_vars

\* --------------------------------------- connect, reconnect_ws, disconnect

\* From<u8> for GatewayOpcode.
GatewayOpcodeFromU8(code) ==
  CASE code = 0 -> [tag |-> "Identify", code |-> code]
    [] code = 1 -> [tag |-> "SelectProtocol", code |-> code]
    [] code = 2 -> [tag |-> "Ready", code |-> code]
    [] code = 3 -> [tag |-> "Heartbeat", code |-> code]
    [] code = 4 -> [tag |-> "SessionDescription", code |-> code]
    [] code = 5 -> [tag |-> "Speaking", code |-> code]
    [] code = 6 -> [tag |-> "HeartbeatAck", code |-> code]
    [] code = 7 -> [tag |-> "Resume", code |-> code]
    [] code = 8 -> [tag |-> "Hello", code |-> code]
    [] code = 9 -> [tag |-> "Resumed", code |-> code]
    [] code = 13 -> [tag |-> "ClientDisconnect", code |-> code]
    [] OTHER -> [tag |-> "Unknown", code |-> code]

PayloadOpcodes ==
  {"Identify", "SelectProtocol", "Ready", "Heartbeat", "SessionDescription",
   "Speaking", "HeartbeatAck", "Resume", "Hello"}

\* TryFrom<GatewayPacket> for GatewayEvent: d is "ok" for a payload that
\* decodes, "bad" for one that does not, "none" for a packet without data.
TryFromPacket(packet) ==
  LET opcode == GatewayOpcodeFromU8(packet.op).tag IN
  IF opcode \in PayloadOpcodes
  THEN IF packet.d = "ok" THEN [ok |-> TRUE, event |-> opcode]
                          ELSE [ok |-> FALSE, event |-> "none"]
  ELSE IF opcode = "Resumed" THEN [ok |-> TRUE, event |-> opcode]
                             ELSE [ok |-> FALSE, event |-> "none"]

\* What the voice gateway may deliver: Hello, Ready, SessionDescription
\* (also with a payload that does not decode), Speaking, ClientDisconnect,
\* the undocumented opcode 18 and another unknown opcode.
PeerPackets ==
  {[op |-> 8, d |-> "ok"], [op |-> 2, d |-> "ok"], [op |-> 4, d |-> "ok"],
   [op |-> 4, d |-> "bad"], [op |-> 5, d |-> "ok"], [op |-> 13, d |-> "none"],
   [op |-> 18, d |-> "ok"], [op |-> 20, d |-> "ok"]}

\* The voice server of the Ready packet and the answers of the IP discovery.
ReadyAddress == [address |-> "server", port |-> 1]

DiscoveryResults == {[address |-> "public", port |-> 2], [address |-> "nat", port |-> 3]}

\* The stored session when a call begins: none, or one whose public
\* `hello` and `ready` fields hold a packet or not.
PriorSessions ==
  {NoSession} \cup {[some |-> TRUE, hello |-> h, ready |-> r, open |-> o] :
                      h \in BOOLEAN, r \in BOOLEAN, o \in BOOLEAN}

\* A `?` or `return Err(...)` at the named step, and the return of Ok(()).
Fail(h, step) == [h EXCEPT !.pc = "idle", !.result = "err", !.failed_at = step]

Done(h) == [h EXCEPT !.pc = "idle", !.result = "ok", !.failed_at = "none"]

\* The locals of a call that begins.
Begin(h, op) ==
  [h EXCEPT !.op = op, !.calls = @ + 1, !.version_at_call = h.version,
            !.me = NoSession, !.prior = NoSession, !.ip = NoIp, !.sent = <<>>,
            !.rx = <<>>, !.rxd = <<>>, !.trace = <<>>, !.result = "none",
            !.failed_at = "none",
            !.open_at_check = FALSE]

\* `self.state.set(value)`.
SetState(h, value) == [h EXCEPT !.state = value, !.version = @ + 1]

\* The data of the SelectProtocol packet: the discovered address and port.
SelectProtocolDataOfReady(ip) ==
  [opcode |-> "SelectProtocol", address |-> ReadyAddress.address, port |-> ReadyAddress.port]

SelectProtocolData(ip) ==
  [opcode |-> "SelectProtocol", address |-> ip.address, port |-> ip.port]

\* connect, after `ws.send(SelectProtocol)` returned Ok: on to the wait.
AfterSelectProtocolConnected(h) == [SetState(h, "Connected") EXCEPT !.pc = "describe"]

AfterSelectProtocol(h) == [h EXCEPT !.pc = "describe"]

\* WebSocketVoiceConnection::is_closed.
IsClosed(session) == ~session.open

\* connect is called by the play command while the state is Disconnected:
\* the bitrate, then WebSocketVoiceConnection::new up to connect_async.
HsConnect ==
  /\ hs.pc = "idle"
  /\ hs.calls < MaxCalls
  /\ hs.state = "Disconnected"
  /\ \E bitrate_ok \in BOOLEAN, socket_ok \in BOOLEAN :
       hs' = IF ~bitrate_ok THEN Fail(Begin(hs, "connect"), "bitrate")
             ELSE IF ~socket_ok THEN Fail(Begin(hs, "connect"), "socket")
             ELSE [Begin(hs, "connect") EXCEPT
                     !.pc = "identify", !.me = [NoSession EXCEPT !.some = TRUE, !.open = TRUE]]
  /\ UNCHANGED <<coreVars, cc, pk, flow, pl>>

\* New mode: `me.send_identify().await?`.
HsSendIdentify ==
  /\ hs.pc = "identify"
  /\ hs' = IF hs.me.open
           THEN [hs EXCEPT !.pc = "handshake", !.sent = Append(@, [opcode |-> "Identify"])]
           ELSE Fail(hs, "identify")
  /\ UNCHANGED <<coreVars, cc, pk, flow, pl>>

\* New mode: one turn of the loop that reads until Hello and Ready are in.
HsHandshakeRecv ==
  /\ hs.pc = "handshake"
  /\ Len(hs.rx) < MaxPackets
  /\ IF ~hs.me.open
     THEN hs' = Fail(hs, "receive")
     ELSE \E packet \in PeerPackets :
            LET r == TryFromPacket(packet)
                h == [hs EXCEPT !.rx = Append(@, packet)]
                hello == hs.me.hello \/ r.event = "Hello"
                ready == hs.me.ready \/ r.event = "Ready"
            IN hs' = IF ~r.ok \/ r.event \notin {"Ready", "Hello"}
                     THEN Fail(h, "handshake")
                     ELSE [h EXCEPT !.me.hello = hello, !.me.ready = ready,
                                    !.pc = IF hello /\ ready THEN "install" ELSE "handshake",
                                    !.trace = IF hello /\ ready THEN Append(@, "session") ELSE @]
  /\ UNCHANGED <<coreVars, cc, pk, flow, pl>>

\* connect: `*self.ws.write().await = Some(...)`, the hello and ready of the
\* session, the heartbeat interval.
HsInstall ==
  /\ hs.pc = "install"
  /\ hs' = [hs EXCEPT !.ws = hs.me, !.me = NoSession, !.pc = "udp"]
  /\ UNCHANGED <<coreVars, cc, pk, flow, pl>>

\* connect: `*self.udp.lock().await = Some(UdpVoiceConnection::new(ready).await?)`.
HsUdpNew ==
  /\ hs.pc = "udp"
  /\ \E ok \in BOOLEAN :
       hs' = IF ok THEN [hs EXCEPT !.udp = TRUE, !.pc = "discover",
                                   !.trace = Append(@, "transport")]
             ELSE Fail(hs, "transport")
  /\ UNCHANGED <<coreVars, cc, pk, flow, pl>>

\* discover_udp_ip: the request, the response, the address and the port.
HsDiscover ==
  /\ hs.pc = "discover"
  /\ \E ok \in BOOLEAN, ip \in DiscoveryResults :
       hs' = IF ~ok THEN Fail(hs, "discovery")
             ELSE [hs EXCEPT !.ip = ip, !.pc = "select", !.trace = Append(@, "discovery")]
  /\ UNCHANGED <<coreVars, cc, pk, flow, pl>>

\* connect: `ws.send(GatewayEvent::SelectProtocol(...)).await?`.
HsSelectProtocol ==
  /\ hs.pc = "select"
  /\ hs' = IF hs.ws.open
           THEN AfterSelectProtocol([hs EXCEPT !.sent = Append(@, SelectProtocolData(hs.ip)),
                                               !.trace = Append(@, "select")])
           ELSE Fail(hs, "select")
  /\ UNCHANGED <<coreVars, cc, pk, flow, pl>>

\* connect: one turn of the loop that waits for SessionDescription; a packet
\* that try_into rejects is skipped by `Err(_) => continue`.
HsDescriptionRecv ==
  /\ hs.pc = "describe"
  /\ Len(hs.rxd) < MaxPackets
  /\ IF ~hs.ws.open
     THEN hs' = Fail(hs, "receive")
     ELSE \E packet \in PeerPackets :
            LET r == TryFromPacket(packet)
                h == [hs EXCEPT !.rxd = Append(@, packet)]
            IN hs' = IF ~r.ok THEN h
                     ELSE IF r.event = "SessionDescription"
                     THEN [h EXCEPT !.pc = "key", !.trace = Append(@, "description")]
                     ELSE Fail(h, "description")
  /\ UNCHANGED <<coreVars, cc, pk, flow, pl>>

\* connect: the cipher from the secret key.
HsInstallKey ==
  /\ hs.pc = "key"
  /\ hs' = [hs EXCEPT !.cipher = TRUE, !.pc = "set", !.trace = Append(@, "key")]
  /\ UNCHANGED <<coreVars, cc, pk, flow, pl>>

\* connect: `self.state.set(VoiceConnectionState::Connected); Ok(())`.
HsSetConnected ==
  /\ hs.pc = "set"
  /\ hs' = Done([SetState(hs, "Connected") EXCEPT !.trace = Append(@, "connected")])
  /\ UNCHANGED <<coreVars, cc, pk, flow, pl>>

\* reconnect_ws, called by the ws task of a connected player:
\* `ws.take().expect(...)`.
HsReconnectTake ==
  /\ hs.pc = "idle"
  /\ hs.calls < MaxCalls
  /\ hs.state # "Disconnected"
  /\ hs' = IF ~hs.ws.some
           THEN [Begin(hs, "reconnect_ws") EXCEPT !.result = "panic"]
           ELSE [Begin(hs, "reconnect_ws") EXCEPT !.prior = hs.ws, !.ws = NoSession,
                                                  !.pc = "mode"]
  /\ UNCHANGED <<coreVars, cc, pk, flow, pl>>

\* reconnect_ws: the Resume mode from the old session, `ready` by
\* `context(...)?` and no look at `hello`; then new up to connect_async.
HsReconnectNew ==
  /\ hs.pc = "mode"
  /\ \E socket_ok \in BOOLEAN :
       hs' = IF ~hs.prior.ready THEN Fail(hs, "ready")
             ELSE IF ~socket_ok THEN Fail(hs, "socket")
             ELSE [hs EXCEPT !.pc = "resume",
                             !.me = [some |-> TRUE, hello |-> hs.prior.hello,
                                     ready |-> TRUE, open |-> TRUE]]
  /\ UNCHANGED <<coreVars, cc, pk, flow, pl>>

\* Resume mode: `me.send_resume().await?`, no packet read.
HsSendResume ==
  /\ hs.pc = "resume"
  /\ hs' = IF hs.me.open
           THEN [hs EXCEPT !.pc = "store", !.sent = Append(@, [opcode |-> "Resume"])]
           ELSE Fail(hs, "resume")
  /\ UNCHANGED <<coreVars, cc, pk, flow, pl>>

\* reconnect_ws: `*ws = Some(...); Ok(())`.
HsReconnectStore ==
  /\ hs.pc = "store"
  /\ hs' = Done([hs EXCEPT !.ws = hs.me, !.me = NoSession,
                           !.trace = Append(@, "session")])
  /\ UNCHANGED <<coreVars, cc, pk, flow, pl>>

\* disconnect: `self.state.set(VoiceConnectionState::Disconnected)`.
HsDisconnectStateLate ==
  /\ hs.pc = "idle"
  /\ hs.calls < MaxCalls
  /\ hs' = [Begin(hs, "disconnect") EXCEPT !.pc = "ws", !.udp = FALSE,
                                            !.trace = <<"transport">>]
  /\ UNCHANGED <<coreVars, cc, pk, flow, pl>>

HsDisconnectState ==
  /\ hs.pc = "idle"
  /\ hs.calls < MaxCalls
  /\ hs' = [SetState(Begin(hs, "disconnect"), "Disconnected") EXCEPT
              !.pc = "drop", !.trace = <<"state">>]
  /\ UNCHANGED <<coreVars, cc, pk, flow, pl>>

\* disconnect: `*self.udp.lock().await = None`.
HsDisconnectUdp ==
  /\ hs.pc = "drop"
  /\ hs' = [hs EXCEPT !.udp = FALSE, !.pc = "ws", !.trace = Append(@, "transport")]
  /\ UNCHANGED <<coreVars, cc, pk, flow, pl>>

\* disconnect: the write lock, `if let Some(ref ws)`, `if !ws.is_closed()`.
HsDisconnectCheck ==
  /\ hs.pc = "ws"
  /\ hs' = IF ~hs.ws.some THEN [hs EXCEPT !.pc = "opus"]
           ELSE IF IsClosed(hs.ws) THEN [hs EXCEPT !.pc = "remove"]
           ELSE [hs EXCEPT !.pc = "close", !.open_at_check = TRUE]
  /\ UNCHANGED <<coreVars, cc, pk, flow, pl>>

\* disconnect: `ws.close(CloseFrame { code: Normal, .. }).await?`, handed to
\* the IO task, which may have ended since the check.
HsDisconnectClose ==
  /\ hs.pc = "close"
  /\ hs' = IF hs.ws.open
           THEN [hs EXCEPT !.pc = "remove",
                           !.sent = Append(@, [opcode |-> "Close", code |-> 1000]),
                           !.trace = Append(@, "close")]
           ELSE Fail(hs, "close")
  /\ UNCHANGED <<coreVars, cc, pk, flow, pl>>

\* disconnect: `*ws_lock = None`.
HsDisconnectRemove ==
  /\ hs.pc = "remove"
  /\ hs' = [hs EXCEPT !.ws = NoSession, !.pc = "opus", !.trace = Append(@, "session")]
  /\ UNCHANGED <<coreVars, cc, pk, flow, pl>>

\* disconnect: `self.opus_encoder.lock().await.reset_state()?; Ok(())`.
HsDisconnectOpus ==
  /\ hs.pc = "opus"
  /\ \E ok \in BOOLEAN : hs' = IF ok THEN Done(hs) ELSE Fail(hs, "opus")
  /\ UNCHANGED <<coreVars, cc, pk, flow, pl>>

\* The IO task of a session ends: the stream of the socket is over.
HsIoEnd ==
  /\ hs.pc # "none"
  /\ \/ hs.me.open /\ hs' = [hs EXCEPT !.me.open = FALSE]
     \/ hs.ws.open /\ hs' = [hs EXCEPT !.ws.open = FALSE]
  /\ UNCHANGED <<coreVars, cc, pk, flow, pl>>

\* A new VoiceConnection, or one with a stored session, its transport and
\* its key, Connected or Playing.
InitConn ==
  /\ CoreIdle
  /\ \E prior \in PriorSessions, state \in {"Connected", "Playing"} :
       hs = [NoHs EXCEPT !.pc = "idle", !.ws = prior, !.udp = prior.some,
                         !.cipher = prior.some,
                         !.state = IF prior.some THEN state ELSE "Disconnected"]
  /\ cc = NoCc /\ pk = NoPk /\ flow = NoFlow /\ pl = NoPl

NextConn ==
  \/ HsConnect \/ HsSendIdentify \/ HsHandshakeRecv \/ HsInstall \/ HsUdpNew
  \/ HsDiscover \/ HsSelectProtocol \/ HsDescriptionRecv \/ HsInstallKey
  \/ HsSetConnected
  \/ HsReconnectTake \/ HsReconnectNew \/ HsSendResume \/ HsReconnectStore
  \/ HsDisconnectState \/ HsDisconnectUdp \/ HsDisconnectCheck
  \/ HsDisconnectClose \/ HsDisconnectRemove \/ HsDisconnectOpus
  \/ HsIoEnd

SpecConn == InitConn /\ [][NextConn]_vars

\* ---------------------------------------------- the buffer in isolation

\* A caller issues write(data): the next n samples, in order.
WriterCall ==
  /\ w_pc = "idle"
  /\ \E n \in 0..MaxWrite :
       /\ next_id + n - 1 <= MaxSamples
       /\ w_data' = Ids(next_id, n)
       /\ next_id' = next_id + n
  /\ w_pc' = "w_wait"
  /\ quiet' = FALSE
  /\ UNCHANGED <<bufVars, w_len, rVars, read_log, flushed, reached, armed, playVars>>

\* The one reader issues read(out) with |out| = n, or flush(), or clear().
ReaderCall ==
  /\ r_pc = "idle"
  /\ \/ \E n \in 1..MaxRead : r_op' = "read" /\ r_n' = n /\ r_pc' = "check"
     \/ r_op' \in {"flush", "clear"} /\ r_n' = 0 /\ r_pc' = "f_pop"
  /\ r_out' = <<>>
  /\ UNCHANGED <<bufVars, wVars, r_lowok, obsVars, playVars>>

ReaderReturn ==
  /\ r_pc = "ret"
  /\ r_pc' = "idle"
  /\ read_log' = IF r_op = "read" THEN read_log \o r_out ELSE read_log
  /\ UNCHANGED <<bufVars, wVars, r_op, r_n, r_out, r_lowok, next_id, flushed, reached, armed, quiet, playVars>>

InitBuf ==
  /\ capacity \in 2..MaxCapacity
  /\ low_threshold \in 1..MaxCapacity
  /\ high_threshold \in 1..MaxCapacity
  /\ ValidThresholds(capacity, low_threshold, high_threshold)
  /\ ring = <<>>
  /\ length = 0
  /\ is_corked = FALSE
  /\ wp_changed = FALSE
  /\ w_pc = "idle" /\ w_data = <<>> /\ w_len = 0
  /\ r_pc = "idle" /\ r_op = "read" /\ r_n = 0 /\ r_out = <<>> /\ r_lowok = FALSE
  /\ next_id = 1
  /\ read_log = <<>>
  /\ flushed = FALSE
  /\ quiet = FALSE
  /\ reached = FALSE
  /\ armed = FALSE
  /\ conn = NoConn /\ loop = NoLoop /\ ing = NoIng /\ env = NoEnv /\ hist = NoHist /\ sig = NoSig
  /\ AuxIdle

NextBuf == WriterCall \/ WriteStep \/ ReaderCall \/ ReadStep \/ FlushStep \/ ReaderReturn

SpecBuf == InitBuf /\ [][NextBuf]_vars

\* The buffer of the cork example, low = 100, high = 200, capacity = 300,
\* counted in units of CorkUnit samples; the writes are of one unit or of
\* 250 samples.
CorkLow == 100 \div CorkUnit
CorkHigh == 200 \div CorkUnit
CorkCapacity == 300 \div CorkUnit
CorkWrites == {1, 250 \div CorkUnit}

CorkWriterCall ==
  /\ w_pc = "idle"
  /\ \E n \in CorkWrites :
       /\ next_id + n - 1 <= MaxCorkSamples
       /\ w_data' = Ids(next_id, n)
       /\ next_id' = next_id + n
  /\ w_pc' = "w_wait"
  /\ quiet' = FALSE
  /\ UNCHANGED <<bufVars, w_len, rVars, read_log, flushed, reached, armed, playVars>>

InitCork ==
  /\ capacity = CorkCapacity
  /\ low_threshold = CorkLow
  /\ high_threshold = CorkHigh
  /\ ring = <<>>
  /\ length = 0
  /\ is_corked = FALSE
  /\ wp_changed = FALSE
  /\ w_pc = "idle" /\ w_data = <<>> /\ w_len = 0
  /\ r_pc = "idle" /\ r_op = "read" /\ r_n = 0 /\ r_out = <<>> /\ r_lowok = FALSE
  /\ next_id = 1
  /\ read_log = <<>>
  /\ flushed = FALSE
  /\ quiet = FALSE
  /\ reached = FALSE
  /\ armed = FALSE
  /\ conn = NoConn /\ loop = NoLoop /\ ing = NoIng /\ env = NoEnv /\ hist = NoHist /\ sig = NoSig
  /\ AuxIdle

NextCork == CorkWriterCall \/ WriteStep \/ ReaderCall \/ ReadStep \/ FlushStep \/ ReaderReturn

SpecCork == InitCork /\ [][NextCork]_vars

\* ------------------------------------------------------------ the Player

\* Player::play: `if state == Playing { return Err }`, else the provider is
\* installed and the send task is spawned; run_udp_loop spawns its ingestion
\* task and waits for the pre-roll.
PlayerPlay(p) ==
  IF p.state = "Playing" THEN p
  ELSE [p EXCEPT !.tasks = Append(@, [pc |-> "preroll", why |-> "none", ing |-> TRUE])]

\* The play command: `if state != Playing { set_position; play().unwrap() }`.
CmdPlay ==
  /\ pl.state \in {"Connected", "Playing"}
  /\ pl.commands < MaxCommands
  /\ Len(pl.tasks) < MaxPlays
  /\ pl' = [PlayerPlay(pl) EXCEPT !.commands = pl.commands + 1]
  /\ UNCHANGED <<coreVars, cc, pk, flow, hs>>

\* The jump command: `if state == Playing { player.stop().await? }`.
JumpCheck ==
  /\ pl.jump = "idle"
  /\ pl' = [pl EXCEPT !.jump = IF pl.state = "Playing" THEN "stop" ELSE "play"]
  /\ UNCHANGED <<coreVars, cc, pk, flow, hs>>

\* Player::stop: `if state != Playing { return Err }`.
JumpStopCheck ==
  /\ pl.jump = "stop"
  /\ pl' = [pl EXCEPT !.jump = IF pl.state = "Playing" THEN "store" ELSE "failed"]
  /\ UNCHANGED <<coreVars, cc, pk, flow, hs>>

\* Player::stop: `stop_udp_loop.store(true)`.
JumpStopStore ==
  /\ pl.jump = "store"
  /\ pl' = [pl EXCEPT !.stop_udp_loop = TRUE, !.jump = "wait"]
  /\ UNCHANGED <<coreVars, cc, pk, flow, hs>>

\* Player::stop: `state.wait_for(|state| *state != Playing)`.
JumpStopWait ==
  /\ pl.jump = "wait"
  /\ pl.state # "Playing"
  /\ pl' = [pl EXCEPT !.jump = "play"]
  /\ UNCHANGED <<coreVars, cc, pk, flow, hs>>

\* The jump command: `set_position(position); player.play().await?`.
JumpPlay ==
  /\ pl.jump = "play"
  /\ Len(pl.tasks) < MaxPlays
  /\ pl' = [PlayerPlay(pl) EXCEPT !.jump = "done"]
  /\ UNCHANGED <<coreVars, cc, pk, flow, hs>>

\* run_udp_loop of a send task: the pre-roll wait has returned;
\* `state.set(Playing)`, and the tick loop begins.
TaskPrerollRet ==
  /\ \E i \in 1..Len(pl.tasks) :
       /\ pl.tasks[i].pc = "preroll"
       /\ pl' = [pl EXCEPT !.state = "Playing", !.tasks[i].pc = "tick"]
  /\ UNCHANGED <<coreVars, cc, pk, flow, hs>>

\* run_udp_loop of a send task, one tick: `if stop_udp_loop.load() { break }`;
\* `if finished.load() { break }`; else a frame.
TaskTick ==
  /\ \E i \in 1..Len(pl.tasks) :
       /\ pl.tasks[i].pc = "tick"
       /\ pl' = IF pl.stop_udp_loop
                THEN [pl EXCEPT !.tasks[i].pc = "clear", !.tasks[i].why = "stop"]
                ELSE IF ~pl.tasks[i].ing
                THEN [pl EXCEPT !.tasks[i].pc = "clear", !.tasks[i].why = "finished"]
                ELSE pl
  /\ UNCHANGED <<coreVars, cc, pk, flow, hs>>

\* run_udp_loop of a send task after the loop: the flush, `sample_buffer.clear()`,
\* `state.set(Connected)`, and the return.
TaskClear ==
  /\ \E i \in 1..Len(pl.tasks) :
       /\ pl.tasks[i].pc = "clear"
       /\ pl' = [pl EXCEPT !.state = "Connected", !.tasks[i].pc = "cas"]
  /\ UNCHANGED <<coreVars, cc, pk, flow, hs>>

\* A send task after run_udp_loop:
\* `if let Err(_) = stop_udp_loop.compare_exchange(true, false) { tx.send(TrackFinished) }`.
TaskCas ==
  /\ \E i \in 1..Len(pl.tasks) :
       /\ pl.tasks[i].pc = "cas"
       /\ pl' = IF pl.stop_udp_loop
                THEN [pl EXCEPT !.stop_udp_loop = FALSE, !.tasks[i].pc = "done"]
                ELSE [pl EXCEPT !.tx = Append(@, i), !.tasks[i].pc = "done"]
  /\ UNCHANGED <<coreVars, cc, pk, flow, hs>>

\* The ingestion task of a send task ends: the provider has returned None, or
\* run_udp_loop has returned and dropped _udp_drop_tx; `finished.store(true)`.
TaskIngestionEnd ==
  /\ \E i \in 1..Len(pl.tasks) :
       /\ pl.tasks[i].ing
       /\ pl' = [pl EXCEPT !.tasks[i].ing = FALSE]
  /\ UNCHANGED <<coreVars, cc, pk, flow, hs>>

\* The handler task of Player::connect receives TrackFinished:
\* `if let Some(next) = mode.seek(1, false) { set_position(next); play().unwrap() }`.
HandleTrackFinished ==
  /\ pl.received < Len(pl.tx)
  /\ Len(pl.tasks) < MaxPlays
  /\ \E next \in BOOLEAN :
       pl' = [(IF next THEN PlayerPlay(pl) ELSE pl) EXCEPT !.received = pl.received + 1]
  /\ UNCHANGED <<coreVars, cc, pk, flow, hs>>

\* A Player whose connect has completed, with no track playing yet and a
\* jump command to come.
InitPlayer ==
  /\ CoreIdle
  /\ cc = NoCc /\ pk = NoPk /\ flow = NoFlow /\ hs = NoHs
  /\ pl = [NoPl EXCEPT !.state = "Connected", !.jump = "idle"]

NextPlayer ==
  \/ CmdPlay
  \/ JumpCheck \/ JumpStopCheck \/ JumpStopStore \/ JumpStopWait \/ JumpPlay
  \/ TaskPrerollRet \/ TaskTick \/ TaskClear \/ TaskCas \/ TaskIngestionEnd
  \/ HandleTrackFinished

SpecPlayer == InitPlayer /\ [][NextPlayer]_vars

\* ------------------------------------------------------------------ claims

\* C1: once the writer has corked the buffer at >= high_threshold, no push
\* adds a sample until a pop has left <= low_threshold samples, or flush or
\* clear has run.
C1_CorkHysteresis == [][(armed /\ ~flushed') => Len(ring') <= Len(ring)]_vars

\* C2: without flush or clear, the samples returned by the reads are the
\* samples of the writes in the order they were issued: the reads so far
\* return a prefix of W1 || W2 || ... || Wn, so reads totalling sum(|Wi|)
\* return exactly all of it.
C2_Fifo == ~flushed => IsPrefix(read_log, Ids(1, next_id - 1))

C2_Witness ==
  /\ ~flushed
  /\ w_pc = "idle" /\ r_pc = "idle"
  /\ read_log = Ids(1, MaxSamples)

\* C3: whenever neither a write nor a read, flush or clear is in progress,
\* len() is the number of unread samples; the counter never wraps below
\* zero and the assertion of read never fails.
C3_LengthCounter ==
  /\ (w_pc = "idle" /\ r_pc = "idle") => length = Len(ring)
  /\ length >= 0
  /\ r_pc # "panic"

\* ------------------------------------------------------------- the send loop

\* run_udp_loop has been called and has not returned or unwound.
LoopRunning == loop.pc \notin {"none", "done", "failed", "panicked"}

\* C4: with a connected VoiceConnection and a source of three 960-sample
\* chunks and then None, and no caller acting and no send failing,
\* run_udp_loop does not stop short of its return, and it returns with
\* exactly three frames sent, no flush frame, and state = Connected.
C4_EndToEnd ==
  (hist.source \in E2EScripts /\ env.callers = {} /\ ~hist.io_failed /\ loop.pc # "none")
    => /\ loop.pc \in {"done"} \/ ENABLED NextPlay
       /\ loop.pc \notin {"failed", "panicked"}
       /\ loop.pc = "done" => /\ hist.sent = 3
                              /\ conn.sequence = hist.seq0 + 3
                              /\ hist.flush_sent = <<>>
                              /\ conn.state = "Connected"

\* C5: while playback has been paused by one completed or running
\* set_paused(true) and not unpaused, an iteration of the send loop whose
\* pause check saw paused = true pops no sample from the buffer.
C5_PausedPopsNothing ==
  ~(/\ conn.paused /\ env.toggles = 1
    /\ loop.branch_paused
    /\ loop.pc = "u_read" /\ r_pc = "sub")

\* C6: while Player::stop waits for the state to leave Playing and
\* run_udp_loop has not returned, the program can still take a step: the
\* loop is not suspended for good with the stop flag set.
C6_StopExits ==
  (env.st_pc = "wait" /\ conn.stop_udp_loop /\ conn.state = "Playing" /\ LoopRunning)
    => ENABLED NextPlay

\* C7: once run_udp_loop has reached its tick loop and is no longer running,
\* whatever the way it ended, the
\* buffer has been cleared by it and the state is not Playing.
C7_ExitPostcondition ==
  (loop.entered /\ loop.pc \in {"done", "failed", "panicked"})
    => loop.cleared /\ conn.state # "Playing"

\* C8: when the loop has returned after a break on the finished flag and a
\* flush, the frames sent by the flush are the samples that were in the
\* buffer at the break, in order, in frame-sized chunks, the last one padded
\* with zeros; and once the loop has observed the stop flag it sends no
\* further frame.
C8_FlushAtEnd ==
  /\ (loop.pc = "done" /\ loop.exit = "finished" /\ hist.flush_ran)
       => hist.flush_sent = PaddedChunks(hist.at_break)
  /\ hist.stop_seen => hist.sent = hist.sent_at_stop

\* ---------------------------------------------------------- the signaling

\* C9: the ws task never panics in reconnect_ws, and whenever it is about to
\* call reconnect_ws, after a failed attempt too, the session that call
\* takes is still there.
C9_ResumeRetry ==
  /\ sig.task # "panicked"
  /\ sig.task \in {"backoff", "reconnect"} /\ sig.failures > 0 => conn.ws

\* C10: after the peer has closed the signaling socket with a close code that
\* cannot be resumed, no resume is under way or attempted, and once
\* run_ws_loop is past its wait for the close notification the connection
\* has been torn down by disconnect.
C10_TerminalClose ==
  (sig.peer_close # 0 /\ ~can_reconnect(GatewayCloseCode(sig.peer_close)))
    => /\ sig.task \notin {"backoff", "reconnect", "panicked"}
       /\ sig.task \notin {"start", "loop", "await_close"} => sig.torn_down

\* --------------------------------------------------------------- close codes

\* The codes the protocol names.
KnownCloseCodes == {4001, 4002, 4003, 4004, 4005, 4006, 4009, 4011, 4012, 4014, 4015, 4016}

\* C11: for every 16-bit close code c, once it has been classified,
\* can_reconnect is true exactly when c = 4015; a known code does not map
\* to Unknown; a code outside the known set maps to Unknown(c), which
\* cannot be resumed; and the variant converts back to c.
C11_CloseCodeClassification ==
  cc.pc = "done"
    => /\ cc.reconnect <=> cc.code = 4015
       /\ cc.code \in KnownCloseCodes => cc.variant.tag # "Unknown"
       /\ cc.code \notin KnownCloseCodes
            => cc.variant = [tag |-> "Unknown", code |-> cc.code] /\ ~cc.reconnect
       /\ cc.back = cc.code

C11_Witness ==
  /\ cc.pc = "done" /\ cc.code = 4015 /\ cc.reconnect
  /\ cc.variant.tag = "VoiceServerCrashed"

\* ------------------------------------------------------------ RTP counters

\* C12: after n calls of send_voice_packet that reached the header step,
\* whatever the frames were and whether or not they were sent, the
\* sequence is its first value plus n modulo 2^16 and the timestamp is its
\* first value plus 960 n modulo 2^32 (the low half and the carried high
\* half); after 65536 such calls the sequence is its first value again; no
\* other call changes the counters.
C12_PacketCounters ==
  pk.pc = "run"
    => /\ pk.sequence = (pk.seq0 + pk.calls) % 65536
       /\ pk.ts_lo = (pk.ts_lo0 + 960 * pk.calls) % 65536
       /\ pk.ts_hi = (pk.ts_hi0 + ((pk.ts_lo0 + 960 * pk.calls) \div 65536)) % 65536
       /\ pk.calls = 65536 => pk.sequence = pk.seq0

C12_Witness ==
  /\ pk.pc = "run" /\ pk.calls = 65536 /\ pk.last.input = "Opus"
  /\ pk.sequence = pk.seq0 /\ pk.seq0 = 65535
  /\ pk.ts_hi = 959 /\ pk.ts_lo = 65000

\* ---------------------------------------------------------------- StateFlow

C14_AwaitChange ==
  flow.pc = "run"
    => \A a \in Waiters :
         LET w == flow.waiters[a] IN
         /\ AtChanged(w) /\ flow.sends > w.seen_sends => flow.version # w.seen
         /\ w.op = "await_change" /\ w.pc = "done"
              => /\ w.at_wake > w.at_call
                 /\ flow.sets = w.sets_at_get => w.got = flow.value

\* --------------------------------------- connect, reconnect_ws, disconnect

Received(packets, op) == \E i \in 1..Len(packets) : packets[i] = [op |-> op, d |-> "ok"]

\* C15: in a fresh connect the first packet sent is Identify; the session is
\* established exactly when a Hello and a Ready have been received, in
\* either order; opcode 18 received before that is ignored and does not
\* abort; any other opcode received before that aborts the connect.
C15_FreshHandshake ==
  hs.op = "connect"
    => /\ hs.sent # <<>> => hs.sent[1].opcode = "Identify"
       /\ hs.trace # <<>> <=> Received(hs.rx, 8) /\ Received(hs.rx, 2)
       /\ hs.failed_at = "handshake" => hs.rx[Len(hs.rx)].op # 18
       /\ hs.pc = "handshake" => \A i \in 1..Len(hs.rx) : hs.rx[i].op \in {8, 2, 18}

ConnectOrder ==
  <<"session", "transport", "discovery", "select", "description", "key", "connected">>

\* C17: the steps of connect happen in the order session established,
\* transport created, IP discovery, SelectProtocol sent, SessionDescription
\* received, key installed, state Connected; the SelectProtocol packet
\* carries the discovered address and port and is not sent before the
\* discovery has succeeded; the state is Connected only once the key is in.
C17_ConnectSequencing ==
  hs.op = "connect"
    => /\ IsPrefix(hs.trace, ConnectOrder)
       /\ \A i \in 1..Len(hs.sent) :
            hs.sent[i].opcode = "SelectProtocol"
              => /\ hs.ip \in DiscoveryResults
                 /\ Len(hs.trace) >= 3
                 /\ hs.sent[i].address = hs.ip.address
                 /\ hs.sent[i].port = hs.ip.port
       /\ hs.state = "Connected" => hs.cipher /\ hs.trace = ConnectOrder
       /\ hs.result = "ok" => hs.trace = ConnectOrder /\ hs.state = "Connected"

C17_Witness ==
  /\ hs.op = "connect" /\ hs.result = "ok" /\ hs.state = "Connected"
  /\ hs.trace = ConnectOrder /\ hs.cipher /\ hs.udp /\ hs.ws.some
  /\ hs.sent = <<[opcode |-> "Identify"],
                 [opcode |-> "SelectProtocol", address |-> "nat", port |-> 3]>>

\* C18: while connect waits for SessionDescription only opcode 18 is
\* skipped: every packet read before the last one is an opcode 18, and the
\* last one is an opcode 18, the SessionDescription that ends the wait, or
\* a packet that aborted the connect.
C18_DescriptionWait ==
  hs.op = "connect"
    => \A i \in 1..Len(hs.rxd) :
         \/ hs.rxd[i].op = 18
         \/ /\ i = Len(hs.rxd)
            /\ \/ hs.failed_at = "description"
               \/ hs.rxd[i] = [op |-> 4, d |-> "ok"] /\ Len(hs.trace) >= 5

\* C19: a connect that has failed, at whatever step, leaves the state
\* Disconnected, and the state is Connected only when connect has returned
\* Ok.
C19_ConnectFailure ==
  hs.op = "connect"
    => /\ hs.result = "err" => hs.state = "Disconnected"
       /\ hs.state = "Connected" => hs.result = "ok"
       /\ hs.result = "none" => hs.state = "Disconnected"

C19_Witness ==
  /\ hs.op = "connect" /\ hs.result = "err" /\ hs.failed_at = "description"
  /\ hs.state = "Disconnected" /\ hs.ws.some /\ hs.udp
  /\ hs.rxd = <<[op |-> 5, d |-> "ok"]>>

C22_Preroll ==
  [][/\ (loop.pc = "u_preroll" /\ conn'.state = "Playing" /\ loop'.pc # "u_preroll")
          => /\ Len(ring) >= low_threshold
             /\ length >= low_threshold
             /\ hist.sent = 0
     /\ (conn'.state = "Playing" /\ conn.state # "Playing") => loop.pc = "u_preroll"
     /\ hist'.sent # hist.sent => loop.pc \notin {"u_start", "u_preroll"}]_vars

C22_Witness ==
  /\ loop.pc = "u_read" /\ conn.state = "Playing"
  /\ hist.sent = 1 /\ hist.source = <<50, 0, 3>>

\* ------------------------------------------------------ the cork overshoot

\* C23: the cork check follows each push, so a push starts from at most
\* high_threshold buffered samples (the length exceeds high_threshold by at
\* most that push), and a writer suspended by the cork resumes only after a
\* pop has left <= low_threshold samples; flush and clear set aside.
C23_CorkOvershoot ==
  [][~flushed'
       => /\ Len(ring') > Len(ring) => Len(ring) <= high_threshold
          /\ (w_pc = "w_uncork_wait" /\ w_pc' # "w_uncork_wait") => ~reached]_vars

\* ------------------------------------------------------------- the read

\* C24: read(out) pops only when at least |out| samples are buffered and
\* takes exactly the |out| oldest ones; where it returns it has uncorked
\* the buffer exactly if the buffer was corked and holds <= low_threshold
\* samples: a read that leaves more than that never uncorks.
C24_Read ==
  [][r_op = "read"
       => /\ (r_pc = "pop" /\ r_pc' = "sub")
               => /\ Len(ring) >= r_n
                  /\ r_out' = SubSeq(ring, 1, r_n)
                  /\ ring' = SubSeq(ring, r_n + 1, Len(ring))
          /\ (r_pc = "uset" /\ r_pc' = "ret")
               => ((is_corked /\ ~is_corked')
                     <=> (is_corked /\ Len(ring) <= low_threshold))]_vars

\* ------------------------------------------------------ flush and clear

\* C25: flush takes every buffered sample, in order: with the reads before
\* it, a prefix of what was written, and all of it when no write is in
\* progress; clear returns nothing; where either returns the buffer is
\* uncorked whatever it was before, and, no write having been in progress,
\* the ring is empty and len() = 0.
C25_FlushClear ==
  [][/\ (r_pc = "f_pop" /\ r_pc' = "f_store")
          => /\ ring' = <<>>
             /\ r_op = "clear" => r_out' = <<>>
             /\ (r_op = "flush" /\ ~flushed)
                  => /\ IsPrefix(read_log \o r_out', Ids(1, next_id - 1))
                     /\ w_pc = "idle" => read_log \o r_out' = Ids(1, next_id - 1)
     /\ (r_pc = "f_uncork" /\ r_pc' = "ret")
          => /\ ~is_corked'
             /\ r_op = "clear" => r_out' = <<>>
             /\ quiet => ring' = <<>> /\ length' = 0]_vars

C25_Witness ==
  /\ r_pc = "ret" /\ r_op = "flush" /\ Len(r_out) >= high_threshold
  /\ w_pc = "w_uncork_wait" /\ ~is_corked
  /\ ring = <<>> /\ length = 0

\* ------------------------------------------------- the connection state

\* C26: whenever the state is Connected or Playing, the session and the
\* transport exist; and once disconnect has dropped both, nothing but a new
\* connect brings the state back to Connected or Playing.
C26_StateInvariant ==
  /\ conn.state \in {"Connected", "Playing"} => conn.ws /\ conn.udp
  /\ env.dc_pc = "done" => conn.state = "Disconnected"

\* -------------------------------------------------- the ingestion shutdown

\* C27: once Player::stop has stored the stop flag, and the connection is
\* not paused, run_udp_loop until its return can always take a step of its
\* own: it does not wait on the ingestion task, whether that sits in a
\* source call or in a write on the corked buffer.
C27_IngestionShutdown ==
  (env.st_pc = "wait" /\ conn.stop_udp_loop /\ ~conn.paused /\ LoopRunning)
    => ENABLED SendTaskStep

\* ------------------------------------------------------ the source protocol

InTickLoop ==
  loop.pc \in {"u_top", "u_lock", "u_branch", "u_dec", "u_silence", "u_silence_chk",
               "u_unpause", "u_finchk", "u_read", "u_keepalive"}

\* C29: with a transport, every tick of the loop ends in the keepalive
\* check, the tick that substitutes a silence frame included, and the send
\* task is never held before that check: not in the wait for unpause and
\* not in the wait for samples.
C29_KeepaliveCadence ==
  /\ [][(loop'.pc = "u_top" /\ loop.pc \notin {"u_top", "u_deadline"})
          => loop.pc = "u_keepalive"]_vars
  /\ []((conn.udp /\ InTickLoop) => ENABLED SendTaskStep)

\* ---------------------------------------------------------- the guard scope

\* run_udp_loop is suspended in the wait for unpause, or in the wait for
\* samples inside sample_buffer.read.
LoopWaits ==
  \/ loop.pc = "u_unpause" /\ conn.paused
  \/ loop.pc = "u_read" /\ r_pc \in {"mark", "changed"}

\* C30: the send loop does not hold the transport lock while it waits for
\* samples or for unpause, and a disconnect that waits for the lock waits
\* for a holder that can still take a step.
C30_GuardScope ==
  /\ LoopWaits => conn.udp_lock = "free"
  /\ (env.dc_pc = "udp" /\ conn.udp_lock # "free") => ENABLED SendTaskStep

\* ------------------------------------------------- the malformed message

\* C31: a text frame of the peer, whatever it holds, ends neither the IO
\* task of the session nor run_ws_loop: after it the IO task still runs and
\* the signaling loop is where it was.
C31_MalformedSkipped ==
  [][sig'.texts # sig.texts => sig'.io = "run" /\ sig'.task = sig.task]_vars

\* ------------------------------------------ the end of the signaling loop

\* C32: once the peer has closed the signaling socket and run_ws_loop has
\* returned, whether the session is to be resumed or torn down, the stop
\* flag of the send loop is set.
C32_WsExitStops ==
  (sig.peer_close # 0 /\ sig.task \in {"backoff", "reconnect", "exited", "panicked"})
    => conn.stop_udp_loop

\* ---------------------------------------------------------- the level guard

\* C33: for a frame popped from the buffer whose send does not fail, one
\* packet is sent; where the level was over the threshold (the silence
\* frame, and `continue`) one event goes to the events channel, and
\* otherwise none.
C33_LevelGuard ==
  [][(loop.pc = "u_read" /\ loop'.pc \in {"u_top", "u_keepalive"})
       => /\ hist'.popped = hist.popped + PACKET_SIZE
          /\ hist'.sent = hist.sent + 1
          /\ conn'.events = conn.events + (IF loop'.pc = "u_top" THEN 1 ELSE 0)]_vars

\* ------------------------------------------------- wakeups of the buffer

\* C34: wait_for(size) does not miss a write: where it is suspended on
\* `changed()` and len() is already >= size, a notification is pending, so
\* it returns without a further write.
C34_NoLostWakeup ==
  (r_pc = "changed" /\ r_op = "read" /\ LenGE(length, r_n)) => wp_changed

\* The writer is suspended in one of the two cork waits of write.
WriterWaitsForUncork == w_pc \in {"w_wait", "w_uncork_wait"} /\ is_corked

\* The reader is suspended in wait_for with no notification pending.
ReaderWaitsForSamples == r_pc = "changed" /\ ~wp_changed

\* C35: with one writer and one reader that only reads, with a read size
\* <= low_threshold, the writer never waits for uncork while the reader
\* waits for more samples, so a corked writer is uncorked by the reads that
\* follow.
C35_NoDeadlock ==
  (~flushed /\ r_op = "read" /\ r_n <= low_threshold)
    => ~(WriterWaitsForUncork /\ ReaderWaitsForSamples)

\* ------------------------------------------------------------- the Player

\* The send tasks whose run_udp_loop has not returned.
SendLoops == {i \in 1..Len(pl.tasks) : pl.tasks[i].pc \in {"preroll", "tick", "clear"}}

\* C36: at no time does a connection have more than one send task inside
\* run_udp_loop, in pre-roll or playing, or more than one ingestion task.
C36_OneSendLoop ==
  /\ Cardinality(SendLoops) <= 1
  /\ Cardinality({i \in 1..Len(pl.tasks) : pl.tasks[i].ing}) <= 1

\* The number of TrackFinished events send task i has produced.
TrackFinishedOf(i) == Cardinality({k \in 1..Len(pl.tx) : pl.tx[k] = i})

\* C37: a send task that is through, whose loop was ended by the stop flag,
\* has produced no TrackFinished, and one whose loop ended because the source
\* had finished has produced exactly one.
C37_TrackFinished ==
  \A i \in 1..Len(pl.tasks) :
    pl.tasks[i].pc = "done"
      => /\ pl.tasks[i].why = "stop" => TrackFinishedOf(i) = 0
         /\ pl.tasks[i].why = "finished" => TrackFinishedOf(i) = 1

\* C40: whenever a send task enters its tick loop the stop flag is false.
C40_NoStaleStop ==
  [][\A i \in 1..Len(pl.tasks) :
       (pl.tasks[i].pc = "preroll" /\ pl'.tasks[i].pc = "tick") => ~pl.stop_udp_loop]_vars

\* ------------------------------------------------------ the abandoned task

\* C38: once run_udp_loop has returned the buffer is empty and stays so:
\* the ingestion task it leaves behind pushes no sample, also where it was
\* waiting in a corked write, and takes no further chunk from the provider
\* of the connection.
C38_NoStaleSamples ==
  /\ [](loop.pc = "done" => ring = <<>>)
  /\ [][loop.pc = "done" => (Len(ring') <= Len(ring) /\ ing'.script = ing.script)]_vars

\* ------------------------------------------------- the loop after a resume

====
